---- MODULE Spec2Model ----
(***************************************************************************)
(* Measurement and selection core of the NTP daemon:                       *)
(*   - the clock filter        (ntp-proto/src/filter.rs)                   *)
(*   - the intersection select (ntp-proto/src/algorithm/kalman/select.rs)  *)
(*   - the source task         (ntpd/src/daemon/ntp_source.rs)             *)
(* Three specifications share this module: SpecFilter / SpecFilterSeq,     *)
(* SpecSelect and SpecTask.  Each one moves only its own variables.        *)
(***************************************************************************)
EXTENDS Integers, Sequences, FiniteSets, TLC

VARIABLES
    register,     \* LastMeasurements.register, slot 1 = newest
    peer_time,    \* the caller's peer.time (time of the last sample used)
    fcall,        \* arguments of the last call of step
    fresult,      \* what the last call of step returned
    fsteps,       \* number of calls of step made so far
    returned,     \* serial numbers of the samples step has returned
    system_precision,  \* the configured precision, in units of 1/JitterScale s
    overflow_checks, \* TRUE: build with overflow checks (debug), FALSE: release

    candidates,   \* the candidates select is called with
    sel_config,   \* SystemConfig and AlgorithmConfig of the call
    sel_result,   \* what select returned, with the locals of its sweep
    pc,           \* per source task: "wait" (in select!), "exec" (in the for
                  \* loop), "blocked" (in send().await), "done", "panicked"
    actions,      \* per source task: the rest of the action iterator
    socket,       \* per source task: self.socket, NoSocket or a socket
    last_send_timestamp,  \* per source task: NoTimestamp or a timestamp
    deadline,     \* per source task: deadline of poll_wait
    wakes,        \* per source task: results select! has delivered
    ctrl,         \* per source task: calls made to the controller
    produced,     \* per source task: the last message handed to send()
    clock_calls,  \* per source task: the operations it has invoked on its clock
    transmitted,  \* per source task: bytes of the last datagram it put on the
                  \* network, 0 before the first
    snapshots,    \* channels.source_snapshots: SourceId -> entry or Absent
    chan,         \* the MsgForSystem channel
    chan_closed,  \* the receiver of the MsgForSystem channel is gone
    sending,      \* per source task: the message of a pending send().await
    exited,       \* std::process::exit was called
    event,        \* the last step taken
    sock_pc,      \* the sock source task: "select", "sending" (in
                  \* send().await) or "exited"
    sock_reads,   \* the sock source task: results select! has delivered
    sock_measured,  \* calls of controller.handle_measurement
    sock_sent,    \* messages the sock source task has handed to send()
    sock_chan,    \* messages in the MsgForSystem channel of the sock source
    sock_chan_closed,  \* the receiver of that channel is gone
    sock_event,   \* the last step of the sock source task
    calc_call,    \* a call of a function of filter.rs on its own: its arguments
    calc_result   \* the value that call returned

fvars == <<register, peer_time, fcall, fresult, fsteps, returned,
          system_precision, overflow_checks>>

svars == <<candidates, sel_config, sel_result>>

tvars == <<pc, actions, socket, last_send_timestamp, deadline, wakes, ctrl,
          produced, clock_calls, transmitted, snapshots, chan, chan_closed, sending, exited,
          event>>

kvars == <<sock_pc, sock_reads, sock_measured, sock_sent, sock_chan,
          sock_chan_closed, sock_event>>

cvars == <<calc_call, calc_result>>

vars == <<fvars, svars, tvars, kvars, cvars>>

(***************************************************************************)
(* Bounds of the model                                                     *)
(***************************************************************************)
\* width of NtpTimestamp in the model (64 in the program)
TimeBits == 20
\* calls of step explored by SpecFilter
MaxSteps == 2
\* calls of step explored by SpecFilterSeq
MaxSeqSteps == 4
\* resolution of the model's floating point seconds: 1/JitterScale
JitterScale == 100
\* length of the candidate lists select is called with
MaxCandidates == 4
UsizeBits == 16
\* results select! delivers to one source task
MaxWakes == 2
\* length of the action sequences a controller call returns
MaxBatch == 2
\* capacity of the MsgForSystem channel
ChanCap == 1
\* the latest Instant there is
InstantMax == 3
\* results select! delivers to the sock source task
MaxSockReads == 2
\* fraction bits of the durations whose dispersion is summed (32 in the
\* program)
DurationFracBits == 8

(***************************************************************************)
(* Time types (time_types.rs is not part of the sources at hand)           *)
(***************************************************************************)
TimeMod == 2 ^ TimeBits
TimeHalf == 2 ^ (TimeBits - 1)

\* NtpTimestamp - NtpTimestamp: wrapping subtraction read as a signed value
TsSub(a, b) ==
    LET d == (a - b) % TimeMod
    IN  IF d >= TimeHalf THEN d - TimeMod ELSE d

\* integer division of a signed value, rounding toward zero
TruncDiv(a, b) == IF a >= 0 THEN a \div b ELSE -((-a) \div b)

\* NtpDuration::MAX_DISPERSION, 16 s
MAX_DISPERSION == 16

\* the range of NtpDuration: as wide as a timestamp
DurationMax == TimeHalf - 1
DurationMin == -TimeHalf

\* NtpDuration + NtpDuration and NtpDuration - NtpDuration saturate
DurSat(x) == IF x > DurationMax THEN DurationMax
             ELSE IF x < DurationMin THEN DurationMin ELSE x
DurAdd(a, b) == DurSat(a + b)
DurSub(a, b) == DurSat(a - b)

\* NtpDuration::from_exponent: 2^e seconds, which is 0 at the resolution of
\* one second when e is negative
from_exponent(e) == IF e >= 0 THEN 2 ^ e ELSE 0

\* peer::multiply_by_phi: 15 ppm of a duration
multiply_by_phi(d) == TruncDiv(d * 15, 1000000)

Synchronized == {"NoWarning", "Leap61", "Leap59"}
\* NtpLeapIndicator::is_synchronized
is_synchronized(leap) == leap \in Synchronized

Max2(a, b) == IF a >= b THEN a ELSE b

RECURSIVE SqrtSearch(_, _, _)
SqrtSearch(n, lo, hi) ==
    IF lo >= hi THEN lo
    ELSE LET mid == (lo + hi + 1) \div 2
         IN  IF mid * mid <= n THEN SqrtSearch(n, mid, hi)
             ELSE SqrtSearch(n, lo, mid - 1)
\* floor of the square root
ISqrt(n) == SqrtSearch(n, 0, IF n < 46340 THEN n ELSE 46340)

(***************************************************************************)
(* filter.rs                                                               *)
(***************************************************************************)
\* a FilterTuple; id is the serial number of the sample (0 for the DUMMYs
\* the register starts with), it is not a field of the program's tuple
FilterTuple(o, dl, ds, t, i) ==
    [offset |-> o, delay |-> dl, dispersion |-> ds, time |-> t, id |-> i]

DUMMY == FilterTuple(0, MAX_DISPERSION, MAX_DISPERSION, 0, 0)

\* an NtpHeader: the fields from_packet_default reads
NtpHeader(org, rec, xmt, precision) ==
    [origin_timestamp |-> org, receive_timestamp |-> rec,
     transmit_timestamp |-> xmt, precision |-> precision]

\* from_packet_default with the delay left as it comes out of the subtraction
from_packet_default_unclamped(packet, precision, destination_timestamp, local_clock_time) ==
    LET packet_precision == from_exponent(packet.precision)
        offset1 == TsSub(packet.receive_timestamp, packet.origin_timestamp)
        offset2 == TsSub(destination_timestamp, packet.transmit_timestamp)
        delta1 == TsSub(destination_timestamp, packet.origin_timestamp)
        delta2 == TsSub(packet.transmit_timestamp, packet.receive_timestamp)
    IN  [offset |-> TruncDiv(DurAdd(offset1, offset2), 2),
         delay |-> DurSub(delta1, delta2),
         dispersion |-> DurAdd(DurAdd(packet_precision, precision),
                               multiply_by_phi(delta1)),
         time |-> local_clock_time,
         id |-> 1]

\* FilterTuple::from_packet_default, lines 39-78
from_packet_default(packet, precision, destination_timestamp, local_clock_time) ==
    LET packet_precision == from_exponent(packet.precision)
        offset1 == TsSub(packet.receive_timestamp, packet.origin_timestamp)
        offset2 == TsSub(destination_timestamp, packet.transmit_timestamp)
        delta1 == TsSub(destination_timestamp, packet.origin_timestamp)
        delta2 == TsSub(packet.transmit_timestamp, packet.receive_timestamp)
    IN  [offset |-> TruncDiv(DurAdd(offset1, offset2), 2),
         delay |-> Max2(precision, DurSub(delta1, delta2)),
         dispersion |-> DurAdd(DurAdd(packet_precision, precision),
                               multiply_by_phi(delta1)),
         time |-> local_clock_time,
         id |-> 1]

\* FilterTuple::is_dummy: equality of the four fields with DUMMY
is_dummy(t) ==
    /\ t.offset = DUMMY.offset
    /\ t.delay = DUMMY.delay
    /\ t.dispersion = DUMMY.dispersion
    /\ t.time = DUMMY.time

\* LastMeasurements::new
NewRegister == [i \in 1..8 |-> DUMMY]

\* an iteration that adds the correction to a DUMMY as well
AgeTupleAlways(t, c) == [t EXCEPT !.dispersion = t.dispersion + c]

\* one iteration of the loop of shift_and_insert on the tuple of a slot
AgeTuple(t, c) ==
    IF is_dummy(t) THEN t ELSE [t EXCEPT !.dispersion = t.dispersion + c]

\* LastMeasurements::shift_and_insert
shift_and_insert(reg, current, dispersion_correction) ==
    [i \in 1..8 |->
        IF i = 1 THEN current ELSE AgeTuple(reg[i - 1], dispersion_correction)]

\* a sort that puts t in front of the tuples of equal delay
InsertByDelayFront(sorted, t) ==
    LET k == Cardinality({j \in 1..Len(sorted) : sorted[j].delay < t.delay})
    IN  SubSeq(sorted, 1, k) \o <<t>> \o SubSeq(sorted, k + 1, Len(sorted))

\* <[T]>::sort_by with the comparison of the delays: t goes behind every
\* tuple whose delay is not larger (the sort is stable)
InsertByDelay(sorted, t) ==
    LET k == Cardinality({j \in 1..Len(sorted) : sorted[j].delay <= t.delay})
    IN  SubSeq(sorted, 1, k) \o <<t>> \o SubSeq(sorted, k + 1, Len(sorted))

RECURSIVE SortPrefix(_, _)
SortPrefix(reg, n) ==
    IF n = 0 THEN <<>> ELSE InsertByDelay(SortPrefix(reg, n - 1), reg[n])

\* TemporaryList::from_clock_filter_contents
from_clock_filter_contents(reg) == SortPrefix(reg, 8)

\* TemporaryList::smallest_delay
smallest_delay(temporary) == temporary[1]

\* TemporaryList::valid_tuples: the list without its trailing DUMMYs
valid_tuples(temporary) ==
    LET lastValid == {j \in 1..8 : ~is_dummy(temporary[j])}
        n == IF lastValid = {} THEN 0
             ELSE CHOOSE j \in lastValid : \A k \in lastValid : k <= j
    IN  SubSeq(temporary, 1, n)

\* the sum with slot i's dispersion divided by 2^i
RECURSIVE DispersionSumFromOne(_, _)
DispersionSumFromOne(temporary, n) ==
    IF n = 0 THEN 0
    ELSE DispersionSumFromOne(temporary, n - 1)
            + TruncDiv(temporary[n].dispersion, 2 ^ (n - 1))

RECURSIVE DispersionSum(_, _)
DispersionSum(temporary, n) ==
    IF n = 0 THEN 0
    ELSE DispersionSum(temporary, n - 1)
            + TruncDiv(temporary[n].dispersion, 2 ^ n)

\* TemporaryList::dispersion
dispersion(temporary) == DispersionSum(temporary, 8)

RECURSIVE SumSquares(_, _, _)
SumSquares(valid, best, n) ==
    IF n = 0 THEN 0
    ELSE SumSquares(valid, best, n - 1)
            + (valid[n].offset - best.offset) * (valid[n].offset - best.offset)

\* jitter_help dividing by the number of valid tuples
jitter_help_mean(valid, best, precision, checks) ==
    LET rms == ISqrt(SumSquares(valid, best, Len(valid)) * JitterScale * JitterScale)
    IN  IF Len(valid) = 0
        THEN IF checks THEN [kind |-> "panic", value |-> 0]
             ELSE [kind |-> "value", value |-> Max2(0, precision)]
        ELSE [kind |-> "value", value |-> Max2(rms \div Len(valid), precision)]

\* jitter_help without its last line: the quotient as it is
jitter_help_unbounded(valid, best, precision, checks) ==
    LET rms == ISqrt(SumSquares(valid, best, Len(valid)) * JitterScale * JitterScale)
    IN  IF Len(valid) = 0
        THEN IF checks THEN [kind |-> "panic", value |-> 0]
             ELSE [kind |-> "value", value |-> 0]
        ELSE IF Len(valid) = 1
        THEN IF rms = 0 THEN [kind |-> "value", value |-> precision]
             ELSE [kind |-> "inf", value |-> 0]
        ELSE [kind |-> "value", value |-> rms \div (Len(valid) - 1)]

\* TemporaryList::jitter_help, in units of 1/JitterScale s.  The result is
\* "panic" when the length - 1 underflows in a build with overflow checks;
\* without them the divisor wraps to 2^64 - 1 and the quotient is 0.  With
\* one valid tuple the quotient is 0/0 = NaN, and NaN.max(p) is p.
jitter_help(valid, best, precision, checks) ==
    LET rms == ISqrt(SumSquares(valid, best, Len(valid)) * JitterScale * JitterScale)
    IN  IF Len(valid) = 0
        THEN IF checks THEN [kind |-> "panic", value |-> 0]
             ELSE [kind |-> "value", value |-> Max2(0, precision)]
        ELSE IF Len(valid) = 1
        THEN IF rms = 0 THEN [kind |-> "value", value |-> precision]
             ELSE [kind |-> "inf", value |-> 0]
        ELSE [kind |-> "value",
              value |-> Max2(rms \div (Len(valid) - 1), precision)]

\* TemporaryList::jitter
jitter(temporary, best, precision, checks) ==
    jitter_help(valid_tuples(temporary), best, precision, checks)

\* a prime directive that lets a sample of the peer time itself through
prime_directive_rejects_lt(best, pt, leap) ==
    TsSub(best.time, pt) < 0 /\ is_synchronized(leap)

\* the prime directive of step: the sample is not newer than the last one used
prime_directive_rejects(best, pt, leap) ==
    TsSub(best.time, pt) <= 0 /\ is_synchronized(leap)

\* LastMeasurements::step: the register after the call
step_register(reg, new_tuple, pt) ==
    shift_and_insert(reg, new_tuple, multiply_by_phi(TsSub(new_tuple.time, pt)))

\* LastMeasurements::step: the value returned
step(reg, new_tuple, pt, leap, precision, checks) ==
    LET temporary_list == from_clock_filter_contents(step_register(reg, new_tuple, pt))
        best == smallest_delay(temporary_list)
    IN  IF prime_directive_rejects(best, pt, leap)
        THEN [kind |-> "None"]
        ELSE LET j == jitter(temporary_list, best, precision, checks)
             IN  IF j.kind = "panic"
                 THEN [kind |-> "Panic"]
                 ELSE [kind |-> "Some",
                       offset |-> best.offset,
                       delay |-> best.delay,
                       dispersion |-> dispersion(temporary_list),
                       jitter |-> j.value,
                       time |-> best.time,
                       id |-> best.id]

(***************************************************************************)
(* algorithm/kalman/select.rs.  The f64 values are integers here, in units *)
(* of 0.05 s; no value is NaN.                                             *)
(***************************************************************************)
\* a PeerSnapshot: its index, offset(), offset_uncertainty(), delay and
\* leap indicator
PeerSnapshot(i, o, u, d, l) ==
    [index |-> i, offset |-> o, uncertainty |-> u, delay |-> d, leap_indicator |-> l]

\* a radius made of the statistical term alone
RadiusStatistical(snapshot, cfg) ==
    snapshot.uncertainty * cfg.range_statistical_weight

\* the radius of a candidate, select lines 18-19 and 49-50
Radius(snapshot, cfg) ==
    snapshot.uncertainty * cfg.range_statistical_weight
        + snapshot.delay * cfg.range_delay_weight

\* the candidate is skipped by the first loop of select
Skipped(snapshot, cfg) ==
    \/ Radius(snapshot, cfg) > cfg.max_peer_uncertainty
    \/ ~is_synchronized(snapshot.leap_indicator)

\* the first loop of select: the bounds of the first n candidates
RECURSIVE BuildBounds(_, _, _)
BuildBounds(cands, cfg, n) ==
    IF n = 0 THEN <<>>
    ELSE LET snapshot == cands[n]
             radius == Radius(snapshot, cfg)
         IN  IF Skipped(snapshot, cfg)
             THEN BuildBounds(cands, cfg, n - 1)
             ELSE BuildBounds(cands, cfg, n - 1)
                    \o << [value |-> snapshot.offset - radius, type |-> "Start"],
                          [value |-> snapshot.offset + radius, type |-> "End"] >>

\* bounds.sort_by on the value: b goes behind every bound whose value is not
\* larger (the sort is stable)
InsertByValue(sorted, b) ==
    LET k == Cardinality({j \in 1..Len(sorted) : sorted[j].value <= b.value})
    IN  SubSeq(sorted, 1, k) \o <<b>> \o SubSeq(sorted, k + 1, Len(sorted))

RECURSIVE SortBounds(_, _)
SortBounds(bounds, n) ==
    IF n = 0 THEN <<>> ELSE InsertByValue(SortBounds(bounds, n - 1), bounds[n])

\* the locals of the sweep before its first bound
SweepStart == [max |-> 0, maxt |-> 0, cur |-> 0, underflow |-> FALSE]

\* a sweep that takes the last bound at which the counter is largest
SweepBoundLast(sw, b) ==
    LET cur == IF b.type = "Start" THEN sw.cur + 1 ELSE sw.cur - 1
    IN  IF b.type = "End" /\ sw.cur = 0
        THEN [sw EXCEPT !.underflow = TRUE]
        ELSE IF cur >= sw.max
        THEN [sw EXCEPT !.cur = cur, !.max = cur, !.maxt = b.value]
        ELSE [sw EXCEPT !.cur = cur]

\* one iteration of the sweep of select; cur -= 1 at 0 underflows the usize
SweepBound(sw, b) ==
    LET cur == IF b.type = "Start" THEN sw.cur + 1 ELSE sw.cur - 1
    IN  IF b.type = "End" /\ sw.cur = 0
        THEN [sw EXCEPT !.underflow = TRUE]
        ELSE IF cur > sw.max
        THEN [sw EXCEPT !.cur = cur, !.max = cur, !.maxt = b.value]
        ELSE [sw EXCEPT !.cur = cur]

\* the sweep over the first n sorted bounds
RECURSIVE Sweep(_, _)
Sweep(sorted, n) ==
    IF n = 0 THEN SweepStart
    ELSE LET sw == Sweep(sorted, n - 1)
         IN  IF sw.underflow THEN sw ELSE SweepBound(sw, sorted[n])

\* the test of line 45
IntersectionValid(max, nbounds, cfg) ==
    max >= cfg.min_intersection_survivors /\ max * 4 > nbounds

\* a filter that forgets the leap indicator
SurvivesAnyLeap(snapshot, cfg, maxt) ==
    LET radius == Radius(snapshot, cfg)
    IN  /\ radius <= cfg.max_peer_uncertainty
        /\ snapshot.offset - radius <= maxt
        /\ snapshot.offset + radius >= maxt

\* the filter of lines 48-55
Survives(snapshot, cfg, maxt) ==
    LET radius == Radius(snapshot, cfg)
    IN  /\ radius <= cfg.max_peer_uncertainty
        /\ snapshot.offset - radius <= maxt
        /\ snapshot.offset + radius >= maxt
        /\ is_synchronized(snapshot.leap_indicator)

\* select: the list returned, with the sorted bounds and the locals of the
\* sweep
select(cfg, cands) ==
    LET built == BuildBounds(cands, cfg, Len(cands))
        bounds == SortBounds(built, Len(built))
        sw == Sweep(bounds, Len(bounds))
    IN  IF sw.underflow
        THEN [kind |-> "Underflow", survivors |-> <<>>, bounds |-> bounds,
              max |-> sw.max, maxt |-> sw.maxt, cur |-> sw.cur]
        ELSE [kind |-> "Ok",
              survivors |->
                  IF IntersectionValid(sw.max, Len(bounds), cfg)
                  THEN SelectSeq(cands, LAMBDA c : Survives(c, cfg, sw.maxt))
                  ELSE <<>>,
              bounds |-> bounds,
              max |-> sw.max, maxt |-> sw.maxt, cur |-> sw.cur]

\* usize as a word of UsizeBits bits
UsizeMod == 2 ^ UsizeBits

\* one iteration of the sweep in a build without overflow checks: cur += 1
\* and cur -= 1 wrap around
SweepBoundWrapping(sw, b) ==
    LET cur == IF b.type = "Start" THEN (sw.cur + 1) % UsizeMod
               ELSE (sw.cur - 1) % UsizeMod
        under == sw.underflow \/ (b.type = "End" /\ sw.cur = 0)
    IN  IF cur > sw.max
        THEN [max |-> cur, maxt |-> b.value, cur |-> cur, underflow |-> under]
        ELSE [sw EXCEPT !.cur = cur, !.underflow = under]

\* the sweep over the first n sorted bounds in such a build
RECURSIVE SweepWrapping(_, _)
SweepWrapping(sorted, n) ==
    IF n = 0 THEN SweepStart
    ELSE SweepBoundWrapping(SweepWrapping(sorted, n - 1), sorted[n])

\* the test of line 45 in such a build: max * 4 wraps around
IntersectionValidWrapping(max, nbounds, cfg) ==
    max >= cfg.min_intersection_survivors /\ (max * 4) % UsizeMod > nbounds

\* select in a build without overflow checks; Wrapped tells that cur was
\* decremented at 0
select_wrapping(cfg, cands) ==
    LET built == BuildBounds(cands, cfg, Len(cands))
        bounds == SortBounds(built, Len(built))
        sw == SweepWrapping(bounds, Len(bounds))
    IN  [kind |-> IF sw.underflow THEN "Wrapped" ELSE "Ok",
         survivors |->
             IF IntersectionValidWrapping(sw.max, Len(bounds), cfg)
             THEN SelectSeq(cands, LAMBDA c : Survives(c, cfg, sw.maxt))
             ELSE <<>>,
         bounds |-> bounds,
         max |-> sw.max, maxt |-> sw.maxt, cur |-> sw.cur]

\* select as the build runs it: with overflow checks the decrement at 0
\* panics (Underflow), without them it wraps
select_build(cfg, cands, checks) ==
    IF checks THEN select(cfg, cands) ELSE select_wrapping(cfg, cands)

(***************************************************************************)
(* daemon/ntp_source.rs: SourceTask::run.  The controller (NtpSource) is   *)
(* any source of action sequences; the clock, the socket and the system    *)
(* are the environment.                                                    *)
(***************************************************************************)
\* the SourceIds of the system, and those whose task is followed step by
\* step; the tasks of the others are part of the environment
SourceIds == {"s1", "s2"}
Sources == {"s1"}

\* NtpSourceAction
ActionKinds == {"Send", "UpdateSystem", "SetTimer", "Reset", "Demobilize"}

\* the action sequences a controller call can return
Batches == UNION {[1..n -> ActionKinds] : n \in 0..MaxBatch}

\* source_snapshots: no entry; an entry is the number of the controller call
\* whose observe() it holds.  Observed is the entry of another source
Absent == 0
Observed == 1

\* self.socket is None; two names tell a socket from the one it replaces
NoSocket == 0

\* last_send_timestamp is None; a timestamp is the clock reading or the
\* kernel timestamp of the Send that transmitted on socket n
NoTimestamp == [from |-> "None", send |-> 0]
ClockReading(n) == [from |-> "clock", send |-> n]
KernelTimestamp(n) == [from |-> "kernel", send |-> n]

\* raw_os_error() of the errors recv and send return; no_errno is None
Errnos == {"EHOSTDOWN", "EHOSTUNREACH", "ENETDOWN", "ENETUNREACH",
           "ECONNREFUSED", "no_errno"}

\* a match of the errno that leaves ENETUNREACH out
NetworkErrnosButOne == {"EHOSTDOWN", "EHOSTUNREACH", "ENETDOWN"}

\* the errno values matched at lines 440-443 and 257-260
NetworkErrnos == {"EHOSTDOWN", "EHOSTUNREACH", "ENETDOWN", "ENETUNREACH"}

\* smallest datagram accept_packet accepts, and the sizes recv returns
MinPacketSize == 48
Sizes == {MinPacketSize - 1, MinPacketSize, MinPacketSize + 1}

\* what socket.recv returns
RecvOk(size, has_timestamp) ==
    [ok |-> TRUE, size |-> size, timestamp |-> has_timestamp, errno |-> "none"]
RecvErr(errno) ==
    [ok |-> FALSE, size |-> 0, timestamp |-> FALSE, errno |-> errno]
RecvResults ==
    {RecvOk(size, t) : size \in Sizes, t \in BOOLEAN} \cup {RecvErr(e) : e \in Errnos}

\* accept_packet: lines 401-449.  The receive timestamp is settled before the
\* size is looked at, so the panic of line 421 does not depend on the size
accept_packet(result, clock_ok) ==
    IF result.ok
    THEN IF ~result.timestamp /\ ~clock_ok
         THEN [kind |-> "Panic", len |-> 0]
         ELSE IF result.size < MinPacketSize
              THEN [kind |-> "Ignore", len |-> 0]
              ELSE [kind |-> "Accept", len |-> result.size]
    ELSE IF result.errno \in NetworkErrnos
         THEN [kind |-> "NetworkGone", len |-> 0]
         ELSE [kind |-> "Ignore", len |-> 0]

\* the latest Instant, and the operands of Instant::now().checked_add(timeout)
Nows == {1, InstantMax}
Durations == {1, 2}
NoInstant == 0
checked_add(now, d) == IF now + d > InstantMax THEN NoInstant ELSE now + d

\* the deadline poll_wait has before the first SetTimer
InitialDeadline == 0

\* the messages another task leaves in the channel
MsgKinds == {"SourceUpdate"}

Msg(k, s) == [kind |-> k, id |-> s]
NoMsg == [kind |-> "none", id |-> "none"]

\* the record of a step: who took it, what it handled or executed, how that
\* came out, and the values it worked on
Ev(s, kind, what, outcome, arg, now, ts) ==
    [source |-> s, kind |-> kind, what |-> what, outcome |-> outcome,
     arg |-> arg, now |-> now, ts |-> ts]

\* a send that waits for room although the receiver is gone
CanTakeOpen == ~chan_closed /\ Len(chan) < ChanCap

\* the operations of NtpClock
ClockOps == {"now", "set_frequency", "get_frequency", "step_clock",
             "disable_ntp_algorithm", "error_estimate_update", "status_update"}

\* a Send that steps the clock to get its timestamp
ClockOpSteering == "step_clock"

\* the operation the Send action invokes on the clock: line 240
ClockOpOfSend == "now"

\* the operation accept_packet invokes on the clock when the datagram came
\* without a kernel timestamp: line 415
ClockOpOfRecv == "now"

\* the task invokes op on its clock
InvokeClock(s, op) ==
    clock_calls' = [clock_calls EXCEPT ![s] = clock_calls[s] \cup {op}]

\* msg_for_system_sender.send(m).await returns at once: there is room in the
\* channel, or the receiver is gone and the error is dropped by ok()
CanTake == chan_closed \/ Len(chan) < ChanCap

\* the channel after a send that has returned
ChanAfter(m) == IF chan_closed THEN chan ELSE Append(chan, m)

\* a select! that is entered again after the task has returned
CanSelectReturned(s) == pc[s] \in {"wait", "done"}

\* a select! that also polls its branches while the for loop runs
CanSelectAlways(s) == pc[s] \in {"wait", "exec"}

\* the task is in select!: line 135
CanSelect(s) == pc[s] = "wait"

\* the position of the task after it has gone through an action: the for
\* loop of line 223, or back to the select! of the loop of line 120
AfterAction(rest) == IF rest = <<>> THEN "wait" ELSE "exec"

\* a wake-up whose snapshot is left as it was
StoreSnapshotNever(s) == snapshots[s]

\* the snapshot a wake-up stores: observe() of the controller after its call
StoreSnapshot(s) == ctrl[s] + 1

\* the controller call of a wake-up (lines 161-175, 195-204, 208-217): the
\* snapshot is stored, the actions returned are what the for loop runs
Handle(s, what, batch, len, ts) ==
    /\ ctrl' = [ctrl EXCEPT ![s] = ctrl[s] + 1]
    /\ snapshots' = [snapshots EXCEPT ![s] = StoreSnapshot(s)]
    /\ actions' = [actions EXCEPT ![s] = batch]
    /\ pc' = [pc EXCEPT ![s] = AfterAction(batch)]
    /\ wakes' = [wakes EXCEPT ![s] = wakes[s] + 1]
    /\ event' = Ev(s, "wake", what, "handled", len, 0, ts)
    /\ UNCHANGED <<socket, last_send_timestamp, deadline, produced, chan,
                   chan_closed, sending, exited>>

\* a wake-up that calls no controller and leaves an empty action iterator
\* (lines 158, 190, 219)
Ignore(s, what, outcome, len) ==
    /\ wakes' = [wakes EXCEPT ![s] = wakes[s] + 1]
    /\ event' = Ev(s, "wake", what, outcome, len, 0, NoTimestamp)
    /\ UNCHANGED <<pc, actions, ctrl, snapshots, socket, last_send_timestamp,
                   deadline, produced, chan, chan_closed, sending, exited>>

\* a return that removes the snapshot before the send of the last message
\* has returned
TerminateRemoveFirst(s, m, rest) ==
    /\ actions' = [actions EXCEPT ![s] = rest]
    /\ produced' = [produced EXCEPT ![s] = m.kind]
    /\ snapshots' = [snapshots EXCEPT ![s] = Absent]
    /\ IF CanTake
       THEN /\ chan' = ChanAfter(m)
            /\ pc' = [pc EXCEPT ![s] = "done"]
            /\ UNCHANGED sending
       ELSE /\ pc' = [pc EXCEPT ![s] = "blocked"]
            /\ sending' = [sending EXCEPT ![s] = m]
            /\ UNCHANGED chan

\* a return that empties the snapshot map
TerminateClearAll(s, m, rest) ==
    /\ actions' = [actions EXCEPT ![s] = rest]
    /\ produced' = [produced EXCEPT ![s] = m.kind]
    /\ IF CanTake
       THEN /\ chan' = ChanAfter(m)
            /\ snapshots' = [o \in SourceIds |-> Absent]
            /\ pc' = [pc EXCEPT ![s] = "done"]
            /\ UNCHANGED sending
       ELSE /\ pc' = [pc EXCEPT ![s] = "blocked"]
            /\ sending' = [sending EXCEPT ![s] = m]
            /\ UNCHANGED <<chan, snapshots>>

\* a last message after which the for loop goes on
TerminateAndGoOn(s, m, rest) ==
    /\ actions' = [actions EXCEPT ![s] = rest]
    /\ produced' = [produced EXCEPT ![s] = m.kind]
    /\ IF CanTake
       THEN /\ chan' = ChanAfter(m)
            /\ snapshots' = [snapshots EXCEPT ![s] = Absent]
            /\ pc' = [pc EXCEPT ![s] = AfterAction(rest)]
            /\ UNCHANGED sending
       ELSE /\ pc' = [pc EXCEPT ![s] = "blocked"]
            /\ sending' = [sending EXCEPT ![s] = m]
            /\ UNCHANGED <<chan, snapshots>>

\* send a last message, remove the snapshot and return (lines 178-188,
\* 227-237, 262-272, 299-309, 312-322); the task waits in send().await while
\* the channel is full.  rest is what the action iterator still holds: the
\* return drops it
Terminate(s, m, rest) ==
    /\ actions' = [actions EXCEPT ![s] = rest]
    /\ produced' = [produced EXCEPT ![s] = m.kind]
    /\ IF CanTake
       THEN /\ chan' = ChanAfter(m)
            /\ snapshots' = [snapshots EXCEPT ![s] = Absent]
            /\ pc' = [pc EXCEPT ![s] = "done"]
            /\ UNCHANGED sending
       ELSE /\ pc' = [pc EXCEPT ![s] = "blocked"]
            /\ sending' = [sending EXCEPT ![s] = m]
            /\ UNCHANGED <<chan, snapshots>>

\* select! delivers the timer: lines 193-205
WakeTimer(s) ==
    /\ ~exited /\ CanSelect(s) /\ wakes[s] < MaxWakes
    /\ \E batch \in Batches : Handle(s, "Timer", batch, 0, NoTimestamp)
    /\ UNCHANGED <<clock_calls, transmitted>>

\* what handle_timer returns for the first poll of a source: one Send, with
\* or without another action before or after it
PollBatches ==
    {b \in Batches : Cardinality({i \in DOMAIN b : b[i] = "Send"}) = 1}

\* the task is as spawn started it: no socket, no request outstanding
Fresh(s) ==
    /\ socket[s] = NoSocket /\ last_send_timestamp[s] = NoTimestamp
    /\ wakes[s] = 0 /\ pc[s] = "wait"

\* select! delivers the timer to a task that has just been started: lines
\* 193-205
WakePoll(s) ==
    /\ ~exited /\ CanSelect(s) /\ Fresh(s)
    /\ \E batch \in PollBatches : Handle(s, "Timer", batch, 0, NoTimestamp)
    /\ UNCHANGED <<clock_calls, transmitted>>

\* select! delivers a system update or an error of the broadcast channel:
\* lines 206-220
WakeSystemUpdate(s) ==
    /\ ~exited /\ CanSelect(s) /\ wakes[s] < MaxWakes
    /\ \/ \E batch \in Batches : Handle(s, "SystemUpdate", batch, 0, NoTimestamp)
       \/ Ignore(s, "SystemUpdate", "error", 0)
    /\ UNCHANGED <<clock_calls, transmitted>>

\* the panic of line 421 ends the task where it stands
RecvPanic(s, size) ==
    /\ pc' = [pc EXCEPT ![s] = "panicked"]
    /\ wakes' = [wakes EXCEPT ![s] = wakes[s] + 1]
    /\ event' = Ev(s, "wake", "Recv", "panic", size, 0, NoTimestamp)
    /\ UNCHANGED <<actions, ctrl, snapshots, socket, last_send_timestamp,
                   deadline, produced, chan, chan_closed, sending, exited>>

\* select! delivers the result of socket.recv, which is polled only while
\* there is a socket (line 142): lines 148-192
WakeRecv(s) ==
    /\ ~exited /\ CanSelect(s) /\ wakes[s] < MaxWakes
    /\ socket[s] # NoSocket
    /\ \E result \in RecvResults : \E clock_ok \in BOOLEAN :
          LET accepted == accept_packet(result, clock_ok)
          IN  /\ IF result.ok /\ ~result.timestamp
                 THEN InvokeClock(s, ClockOpOfRecv)
                 ELSE UNCHANGED clock_calls
              /\ UNCHANGED transmitted
              /\ (CASE accepted.kind = "Accept" ->
                     IF last_send_timestamp[s] = NoTimestamp
                     THEN Ignore(s, "Recv", "unsolicited", accepted.len)
                     ELSE \E batch \in Batches :
                             Handle(s, "Recv", batch, accepted.len,
                                    last_send_timestamp[s])
                [] accepted.kind = "Ignore" ->
                     Ignore(s, "Recv", IF result.ok THEN "short" ELSE result.errno,
                            result.size)
                [] accepted.kind = "NetworkGone" ->
                     /\ Terminate(s, Msg("NetworkIssue", s), <<>>)
                     /\ wakes' = [wakes EXCEPT ![s] = wakes[s] + 1]
                     /\ event' = Ev(s, "wake", "Recv", result.errno, 0, 0, NoTimestamp)
                     /\ UNCHANGED <<ctrl, socket, last_send_timestamp, deadline,
                                    chan_closed, exited>>
                [] accepted.kind = "Panic" -> RecvPanic(s, result.size))

\* the packet of the Send action a controller returns for a poll: an NTP
\* header without extension fields, the 48 bytes of lines 663-665
SendPacketSize == 48

\* a send that leaves the last byte of the packet behind
TransmitShort(packet_size) == packet_size - 1

\* socket.send(&packet), line 253, when it succeeds: the datagram is the
\* whole packet
Transmit(packet_size) == packet_size

\* setup_socket that opens a socket only when the task holds none
setup_socket_lazy(s) == IF socket[s] = NoSocket THEN 1 ELSE socket[s]

\* setup_socket, lines 93-117, when it returns Ok: self.socket is a new
\* socket, not the one the task held
setup_socket(s) == IF socket[s] = 1 THEN 2 ELSE 1

\* a transmit that keeps the clock reading whatever the kernel returns
SendTimestampClockOnly(n, kernel) == ClockReading(n)

\* a transmit that keeps nothing when the kernel returns no timestamp
SendTimestampKernelOnly(n, kernel) ==
    IF kernel THEN KernelTimestamp(n) ELSE NoTimestamp

\* last_send_timestamp after a transmit that succeeded on socket n, lines
\* 277-282: the kernel's timestamp if there is one, else the clock reading
SendTimestamp(n, kernel) ==
    IF kernel THEN KernelTimestamp(n) ELSE ClockReading(n)

\* the Send action: lines 225-284
ExecSend(s, rest) ==
    LET opened == setup_socket(s)
        sent(outcome) == Ev(s, "exec", "Send", outcome, opened, 0, ClockReading(opened))
    IN
    \/ \* setup_socket fails
       /\ Terminate(s, Msg("NetworkIssue", s), rest)
       /\ event' = Ev(s, "exec", "Send", "setup_abort", socket[s], 0, NoTimestamp)
       /\ UNCHANGED <<socket, last_send_timestamp, exited, clock_calls, transmitted>>
    \/ \* clock.now() fails: exit(NOPERM)
       /\ socket' = [socket EXCEPT ![s] = opened]
       /\ InvokeClock(s, ClockOpOfSend)
       /\ exited' = TRUE
       /\ event' = Ev(s, "exec", "Send", "clock_fail", opened, 0, NoTimestamp)
       /\ UNCHANGED <<pc, actions, last_send_timestamp, produced, chan, snapshots,
                      sending, transmitted>>
    \/ \* the send fails
       \E errno \in Errnos :
          /\ socket' = [socket EXCEPT ![s] = opened]
          /\ last_send_timestamp' =
                [last_send_timestamp EXCEPT ![s] = ClockReading(opened)]
          /\ InvokeClock(s, ClockOpOfSend)
          /\ event' = sent(errno)
          /\ IF errno \in NetworkErrnos
             THEN Terminate(s, Msg("NetworkIssue", s), rest)
             ELSE /\ actions' = [actions EXCEPT ![s] = rest]
                  /\ pc' = [pc EXCEPT ![s] = AfterAction(rest)]
                  /\ UNCHANGED <<produced, chan, snapshots, sending>>
          /\ UNCHANGED <<exited, transmitted>>
    \/ \* the packet is sent, with or without a kernel timestamp
       \E kernel \in BOOLEAN :
          /\ socket' = [socket EXCEPT ![s] = opened]
          /\ last_send_timestamp' =
                [last_send_timestamp EXCEPT ![s] = SendTimestamp(opened, kernel)]
          /\ InvokeClock(s, ClockOpOfSend)
          /\ event' = sent(IF kernel THEN "sent_kernel" ELSE "sent")
          /\ transmitted' = [transmitted EXCEPT ![s] = Transmit(SendPacketSize)]
          /\ actions' = [actions EXCEPT ![s] = rest]
          /\ pc' = [pc EXCEPT ![s] = AfterAction(rest)]
          /\ UNCHANGED <<exited, produced, chan, snapshots, sending>>

\* the UpdateSystem action: lines 285-291
ExecUpdateSystem(s, rest) ==
    /\ actions' = [actions EXCEPT ![s] = rest]
    /\ produced' = [produced EXCEPT ![s] = "SourceUpdate"]
    /\ event' = Ev(s, "exec", "UpdateSystem", "none", 0, 0, NoTimestamp)
    /\ IF CanTake
       THEN /\ chan' = ChanAfter(Msg("SourceUpdate", s))
            /\ pc' = [pc EXCEPT ![s] = AfterAction(rest)]
            /\ UNCHANGED sending
       ELSE /\ pc' = [pc EXCEPT ![s] = "blocked"]
            /\ sending' = [sending EXCEPT ![s] = Msg("SourceUpdate", s)]
            /\ UNCHANGED chan
    /\ UNCHANGED snapshots

\* a SetTimer that disarms the timer when the addition overflows
rearm_or_clear(old, now, d) == checked_add(now, d)

\* poll_wait after lines 293-296
rearm(old, now, d) ==
    IF checked_add(now, d) = NoInstant THEN old ELSE checked_add(now, d)

\* the SetTimer action: lines 292-297
ExecSetTimer(s, rest) ==
    /\ \E now \in Nows : \E d \in Durations :
          /\ deadline' = [deadline EXCEPT ![s] = rearm(deadline[s], now, d)]
          /\ event' = Ev(s, "exec", "SetTimer", "none", d, now, NoTimestamp)
    /\ actions' = [actions EXCEPT ![s] = rest]
    /\ pc' = [pc EXCEPT ![s] = AfterAction(rest)]

\* the action the for loop takes from the iterator
NextAction(acts) == Head(acts)

\* the message a Reset or a Demobilize sends with a swapped constructor
LastMessageSwapped(action, s) ==
    IF action = "Reset" THEN Msg("MustDemobilize", s) ELSE Msg("Unreachable", s)

\* the message a Reset (line 302) or a Demobilize (line 315) sends
LastMessage(action, s) ==
    IF action = "Reset" THEN Msg("Unreachable", s) ELSE Msg("MustDemobilize", s)

\* one iteration of the for loop of line 223
Exec(s) ==
    /\ ~exited /\ pc[s] = "exec" /\ actions[s] # <<>>
    /\ LET action == NextAction(actions[s])
           rest == Tail(actions[s])
           done == Ev(s, "exec", action, "none", 0, 0, NoTimestamp)
       IN  CASE action = "Send" ->
                  /\ ExecSend(s, rest)
                  /\ UNCHANGED deadline
             [] action = "UpdateSystem" ->
                  /\ ExecUpdateSystem(s, rest)
                  /\ UNCHANGED <<socket, last_send_timestamp, deadline, exited,
                                 clock_calls, transmitted>>
             [] action = "SetTimer" ->
                  /\ ExecSetTimer(s, rest)
                  /\ UNCHANGED <<socket, last_send_timestamp, exited, produced, chan,
                                 clock_calls, transmitted,
                                 snapshots, sending>>
             [] action \in {"Reset", "Demobilize"} ->
                  /\ Terminate(s, LastMessage(action, s), rest)
                  /\ event' = done
                  /\ UNCHANGED <<socket, last_send_timestamp, deadline, exited,
                                 clock_calls, transmitted>>
    /\ UNCHANGED <<ctrl, wakes, chan_closed>>

\* a pending send().await returns: the for loop goes on after a SourceUpdate,
\* the task removes its snapshot and returns after a last message
CompleteSend(s) ==
    /\ ~exited /\ pc[s] = "blocked" /\ CanTake
    /\ chan' = ChanAfter(sending[s])
    /\ sending' = [sending EXCEPT ![s] = NoMsg]
    /\ IF sending[s].kind = "SourceUpdate"
       THEN /\ pc' = [pc EXCEPT ![s] = AfterAction(actions[s])]
            /\ UNCHANGED <<snapshots, actions>>
       ELSE /\ pc' = [pc EXCEPT ![s] = "done"]
            /\ snapshots' = [snapshots EXCEPT ![s] = Absent]
            /\ UNCHANGED actions
    /\ event' = Ev(s, "complete", sending[s].kind, "none", 0, 0, NoTimestamp)
    /\ UNCHANGED <<socket, last_send_timestamp, deadline, ctrl, wakes, produced,
                   clock_calls, transmitted,
                   chan_closed, exited>>

\* the system takes a message from the channel
SystemRecv ==
    /\ ~exited /\ chan # <<>>
    /\ chan' = Tail(chan)
    /\ event' = Ev("none", "system", "recv", "none", 0, 0, NoTimestamp)
    /\ UNCHANGED <<pc, actions, socket, last_send_timestamp, deadline, ctrl, wakes,
                   clock_calls, transmitted,
                   produced, snapshots, chan_closed, sending, exited>>

\* the system drops the receiver of the channel
CloseReceiver ==
    /\ ~exited /\ ~chan_closed
    /\ chan_closed' = TRUE
    /\ chan' = <<>>
    /\ event' = Ev("none", "system", "close", "none", 0, 0, NoTimestamp)
    /\ UNCHANGED <<pc, actions, socket, last_send_timestamp, deadline, ctrl, wakes,
                   clock_calls, transmitted,
                   produced, snapshots, sending, exited>>

\* the task of another source sends a message to the system
OtherSend ==
    /\ ~exited /\ ~chan_closed /\ Len(chan) < ChanCap
    /\ \E o \in SourceIds \ Sources : \E k \in MsgKinds :
          /\ chan' = Append(chan, Msg(k, o))
          /\ event' = Ev(o, "other", "send", "none", 0, 0, NoTimestamp)
    /\ UNCHANGED <<pc, actions, socket, last_send_timestamp, deadline, ctrl, wakes,
                   clock_calls, transmitted,
                   produced, snapshots, chan_closed, sending, exited>>

(***************************************************************************)
(* The filter as a state machine                                           *)
(***************************************************************************)
\* timestamps on both halves of the era
Times == {0, 1, TimeHalf + 2}
Leaps == {"NoWarning", "Unknown"}
\* system precision, in units of 1/JitterScale s
Precisions == {0, JitterScale}

\* the tuples step is called with: samples with delays below, at and above
\* MAX_DISPERSION, and a tuple with the field values of DUMMY
NewTuples(i) ==
    {FilterTuple(o, dl, 0, t, i) :
        o \in {0, 3}, dl \in {1, MAX_DISPERSION, MAX_DISPERSION + 1}, t \in Times}
    \cup {FilterTuple(0, MAX_DISPERSION, MAX_DISPERSION, 0, i)}

NoCall == [new_tuple |-> DUMMY, peer_time |-> 0, leap |-> "Unknown", fresh |-> FALSE]

(***************************************************************************)
(* sock_source.rs: the sock source task                                    *)
(***************************************************************************)
SOCK_MAGIC == 1397703499     \* 0x534f434b
SOCK_SAMPLE_SIZE == 40

\* i32::from_le_bytes of four bytes
i32_from_le_bytes(b) ==
    LET low == b[1] + 256 * b[2] + 65536 * b[3] + 16777216 * (b[4] % 128)
    IN  IF b[4] >= 128 THEN (low - 2147483647) - 1 ELSE low

\* the four bytes a writer of samples stores for an int
i32_to_le_bytes(v) ==
    LET low == IF v < 0 THEN (v + 2147483647) + 1 ELSE v
    IN  <<low % 256, (low \div 256) % 256, (low \div 65536) % 256,
          (low \div 16777216) + (IF v < 0 THEN 128 ELSE 0)>>

\* a sample as its writer lays it out: tv_sec, tv_usec and offset (left zero
\* here), pulse at 24, leap at 28, padding, magic at 36
SampleBytes(pulse, leap, magic) ==
    [i \in 1..24 |-> 0] \o i32_to_le_bytes(pulse) \o i32_to_le_bytes(leap)
        \o <<0, 0, 0, 0>> \o i32_to_le_bytes(magic)

\* the magic with its bytes in the other order
SwappedMagic == 1262702419   \* 0x4b434f53

\* the datagrams written to the socket: samples, samples cut short by a
\* byte and samples followed by one more byte
Datagrams ==
    LET samples == {SampleBytes(p, l, m) : p \in {0, 1, -1}, l \in {0, 1, 2, 3},
                                          m \in {SOCK_MAGIC, SwappedMagic, 0}}
    IN  samples
        \cup {SubSeq(d, 1, SOCK_SAMPLE_SIZE - 1) : d \in samples}
        \cup {Append(d, 0) : d \in samples}

\* self.socket.recv(&mut buf) with buf = [0; SOCK_SAMPLE_SIZE], lines 107 and
\* 120: the bytes of the datagram that fit in buf are stored, the rest of
\* the datagram is discarded, and the number of bytes stored is returned
SockRecvOk(datagram) ==
    LET size == IF Len(datagram) < SOCK_SAMPLE_SIZE THEN Len(datagram)
                ELSE SOCK_SAMPLE_SIZE
    IN  [ok |-> TRUE, size |-> size,
         buf |-> [i \in 1..SOCK_SAMPLE_SIZE |->
                     IF i <= size THEN datagram[i] ELSE 0]]

\* socket.recv fails
SockRecvErr == [ok |-> FALSE, size |-> 0, buf |-> [i \in 1..SOCK_SAMPLE_SIZE |-> 0]]

\* what happens on the socket: a datagram arrives, or the read fails
SockInputs ==
    {[arrived |-> TRUE, datagram |-> d] : d \in Datagrams}
    \cup {[arrived |-> FALSE, datagram |-> <<>>]}

\* deserialize_sample, lines 52-80
deserialize_sample(result, buf) ==
    IF ~result.ok THEN [kind |-> "IOError"]
    ELSE IF result.size # SOCK_SAMPLE_SIZE THEN [kind |-> "WrongSize"]
    ELSE LET pulse == i32_from_le_bytes(SubSeq(buf, 25, 28))
             leap == i32_from_le_bytes(SubSeq(buf, 29, 32))
             magic == i32_from_le_bytes(SubSeq(buf, 37, 40))
         IN  IF magic # SOCK_MAGIC THEN [kind |-> "WrongMagic"]
             ELSE IF pulse # 0 THEN [kind |-> "WrongPulse"]
             ELSE [kind |-> "Ok", pulse |-> pulse, leap |-> leap, magic |-> magic]

\* the leap indicator of the measurement, lines 132-137
SockLeap(leap) ==
    CASE leap = 0 -> "NoWarning"
      [] leap = 1 -> "Leap61"
      [] leap = 2 -> "Leap59"
      [] OTHER -> "Unknown"

SockEv(kind, datagram, outcome, leap) ==
    [kind |-> kind, datagram |-> datagram, outcome |-> outcome, leap |-> leap]

\* select! delivers the result of socket.recv: lines 129-179
SockRecv ==
    /\ sock_pc = "select" /\ sock_reads < MaxSockReads
    /\ sock_reads' = sock_reads + 1
    /\ \E input \in SockInputs :
          LET datagram == input.datagram
              result == IF input.arrived THEN SockRecvOk(datagram) ELSE SockRecvErr
              sample == deserialize_sample(result, result.buf)
          IN  IF sample.kind # "Ok"
              THEN \* line 177: continue
                   /\ sock_event' = SockEv("SockRecv", datagram, sample.kind, "none")
                   /\ UNCHANGED <<sock_pc, sock_measured, sock_sent, sock_chan,
                                  sock_chan_closed>>
              ELSE \/ \* clock.now() fails: exit(NOPERM), line 143
                      /\ sock_pc' = "exited"
                      /\ sock_event' = SockEv("SockRecv", datagram, "clock_fail",
                                              SockLeap(sample.leap))
                      /\ UNCHANGED <<sock_measured, sock_sent, sock_chan,
                                     sock_chan_closed>>
                   \/ \* handle_measurement, then send(..).await.ok()
                      /\ sock_measured' = sock_measured + 1
                      /\ sock_sent' = sock_sent + 1
                      /\ sock_event' = SockEv("SockRecv", datagram, "measured",
                                              SockLeap(sample.leap))
                      /\ IF sock_chan_closed
                         THEN UNCHANGED <<sock_pc, sock_chan>>
                         ELSE IF sock_chan < ChanCap
                         THEN sock_chan' = sock_chan + 1 /\ UNCHANGED sock_pc
                         ELSE sock_pc' = "sending" /\ UNCHANGED sock_chan
                      /\ UNCHANGED sock_chan_closed

\* select! delivers the result of system_update_receiver.recv: lines 180-187
SockSystemUpdate ==
    /\ sock_pc = "select" /\ sock_reads < MaxSockReads
    /\ sock_reads' = sock_reads + 1
    /\ \E ok \in BOOLEAN :
          sock_event' = SockEv("SystemUpdate", <<>>, IF ok THEN "handled" ELSE "error",
                               "none")
    /\ UNCHANGED <<sock_pc, sock_measured, sock_sent, sock_chan, sock_chan_closed>>

\* send(..).await returns: there is room in the channel, or its receiver is
\* gone (line 172)
SockCompleteSend ==
    /\ sock_pc = "sending"
    /\ sock_chan_closed \/ sock_chan < ChanCap
    /\ sock_pc' = "select"
    /\ sock_chan' = IF sock_chan_closed THEN sock_chan ELSE sock_chan + 1
    /\ sock_event' = SockEv("complete", <<>>, "none", "none")
    /\ UNCHANGED <<sock_reads, sock_measured, sock_sent, sock_chan_closed>>

\* the system takes a message from the channel
SockSystemRecv ==
    /\ ~sock_chan_closed /\ sock_chan > 0
    /\ sock_chan' = sock_chan - 1
    /\ sock_event' = SockEv("system_recv", <<>>, "none", "none")
    /\ UNCHANGED <<sock_pc, sock_reads, sock_measured, sock_sent, sock_chan_closed>>

\* the system drops its end of the channel
SockCloseReceiver ==
    /\ ~sock_chan_closed
    /\ sock_chan_closed' = TRUE
    /\ sock_event' = SockEv("close", <<>>, "none", "none")
    /\ UNCHANGED <<sock_pc, sock_reads, sock_measured, sock_sent, sock_chan>>

\* the sock source task as spawn starts it, lines 207-215
SockStart ==
    /\ sock_pc = "select"
    /\ sock_reads = 0
    /\ sock_measured = 0
    /\ sock_sent = 0
    /\ sock_chan = 0
    /\ sock_chan_closed = FALSE
    /\ sock_event = SockEv("init", <<>>, "none", "none")

(***************************************************************************)
(* Calls of single functions of filter.rs                                  *)
(***************************************************************************)
\* n seconds as a duration with DurationFracBits fraction bits
Seconds(n) == n * 2 ^ DurationFracBits

\* the temporary lists dispersion is called with: every slot holds
\* MAX_DISPERSION or a little more than a second
DispersionLists ==
    {[i \in 1..8 |-> FilterTuple(0, d[i], d[i], 0, 0)] :
        d \in [1..8 -> {Seconds(MAX_DISPERSION), Seconds(1) + 1}]}

\* TemporaryList::new() of the tests (lines 243-248) with the offsets of its
\* first slots set, as the tests of lines 281-304 do
WithOffsets(offsets) ==
    [i \in 1..8 |-> IF i <= Len(offsets)
                    THEN FilterTuple(offsets[i], DUMMY.delay, DUMMY.dispersion,
                                     DUMMY.time, DUMMY.id)
                    ELSE DUMMY]

\* the offsets of the valid tuples jitter is called with, in seconds
JitterOffsets == UNION {[1..n -> {20, 30}] : n \in 1..3}

\* timestamps of a packet exchange: close together and half an era apart
PacketTimes == {0, 1, 3, TimeHalf + 2}

CalcCalls ==
    {[fn |-> "dispersion", list |-> l] : l \in DispersionLists}
    \cup {[fn |-> "jitter", list |-> WithOffsets(o), precision |-> p, checks |-> c] :
            o \in JitterOffsets, p \in {0, JitterScale}, c \in BOOLEAN}
    \cup {[fn |-> "from_packet_default", packet |-> NtpHeader(t1, t2, t3, e),
           system_precision |-> p, destination_timestamp |-> t4,
           local_clock_time |-> t4] :
            t1 \in PacketTimes, t2 \in PacketTimes, t3 \in PacketTimes,
            t4 \in PacketTimes, e \in {-1, 1}, p \in {0, 2}}

\* no call yet
CalcIdle ==
    /\ calc_call = [fn |-> "none"]
    /\ calc_result = [kind |-> "none"]

\* a call of TemporaryList::dispersion
CalcDispersion ==
    /\ calc_call.fn = "dispersion" /\ calc_result.kind = "none"
    /\ calc_result' = [kind |-> "dispersion", value |-> dispersion(calc_call.list)]
    /\ UNCHANGED calc_call

\* a call of TemporaryList::jitter with the first tuple of the list
CalcJitter ==
    /\ calc_call.fn = "jitter" /\ calc_result.kind = "none"
    /\ calc_result' = [kind |-> "jitter",
                       value |-> jitter(calc_call.list, calc_call.list[1],
                                        calc_call.precision, calc_call.checks)]
    /\ UNCHANGED calc_call

\* a call of FilterTuple::from_packet_default
CalcFromPacket ==
    /\ calc_call.fn = "from_packet_default" /\ calc_result.kind = "none"
    /\ calc_result' = [kind |-> "tuple",
                       value |-> from_packet_default(calc_call.packet,
                                                     calc_call.system_precision,
                                                     calc_call.destination_timestamp,
                                                     calc_call.local_clock_time)]
    /\ UNCHANGED calc_call

\* the selector before any call
SelectIdle ==
    /\ candidates = <<>>
    /\ sel_config = [min_intersection_survivors |-> 1, max_peer_uncertainty |-> 1,
                     range_statistical_weight |-> 1, range_delay_weight |-> 1]
    /\ sel_result = [kind |-> "none"]

\* the source tasks as SourceTask::spawn starts them, lines 373-385, in a
\* system whose other sources have stored their snapshots
TaskStart ==
    /\ pc = [s \in Sources |-> "wait"]
    /\ actions = [s \in Sources |-> <<>>]
    /\ socket = [s \in Sources |-> NoSocket]
    /\ last_send_timestamp = [s \in Sources |-> NoTimestamp]
    /\ deadline = [s \in Sources |-> InitialDeadline]
    /\ wakes = [s \in Sources |-> 0]
    /\ ctrl = [s \in Sources |-> 0]
    /\ produced = [s \in Sources |-> "none"]
    /\ clock_calls = [s \in Sources |-> {}]
    /\ transmitted = [s \in Sources |-> 0]
    /\ snapshots = [s \in SourceIds |-> IF s \in Sources THEN Absent ELSE Observed]
    /\ chan = <<>>
    /\ chan_closed = FALSE
    /\ sending = [s \in Sources |-> NoMsg]
    /\ exited = FALSE
    /\ event = Ev("none", "init", "none", "none", 0, 0, NoTimestamp)

FilterInit ==
    /\ SelectIdle
    /\ TaskStart
    /\ SockStart
    /\ CalcIdle
    /\ register = NewRegister
    /\ peer_time \in Times
    /\ system_precision \in Precisions
    /\ overflow_checks \in BOOLEAN
    /\ fcall = NoCall
    /\ fresult = [kind |-> "none"]
    /\ fsteps = 0
    /\ returned = {}

\* the source calls step with its peer time and, when step returns Some,
\* takes the returned time as its new peer time
DoStep(new_tuple, leap) ==
    LET r == step(register, new_tuple, peer_time, leap, system_precision,
                  overflow_checks)
    IN  /\ fcall' = [new_tuple |-> new_tuple, peer_time |-> peer_time, leap |-> leap,
                     fresh |-> \A i \in 1..8 : is_dummy(register[i])]
        /\ register' = step_register(register, new_tuple, peer_time)
        /\ fresult' = r
        /\ fsteps' = fsteps + 1
        /\ returned' = IF r.kind = "Some" THEN returned \cup {r.id} ELSE returned
        /\ peer_time' = IF r.kind = "Some" THEN r.time ELSE peer_time
        /\ UNCHANGED <<system_precision, overflow_checks>>
        /\ UNCHANGED <<svars, tvars, kvars, cvars>>

\* a call of step with any tuple and any system leap indicator
Step ==
    /\ fsteps < MaxSteps
    /\ fresult.kind # "Panic"
    /\ \E new_tuple \in NewTuples(fsteps + 1), leap \in Leaps :
            DoStep(new_tuple, leap)

FilterNext == Step

SpecFilter == FilterInit /\ [][FilterNext]_vars

\* timestamps a third of the era apart: each is later than the one before
SeqTimes == {0, TimeMod \div 3, 2 * (TimeMod \div 3)}

SeqTuples(i) ==
    {FilterTuple(0, dl, 0, t, i) : dl \in {1, 2, MAX_DISPERSION + 1}, t \in SeqTimes}

FilterSeqInit ==
    /\ SelectIdle
    /\ TaskStart
    /\ SockStart
    /\ CalcIdle
    /\ register = NewRegister
    /\ peer_time \in SeqTimes
    /\ system_precision = 0
    /\ overflow_checks \in BOOLEAN
    /\ fcall = NoCall
    /\ fresult = [kind |-> "none"]
    /\ fsteps = 0
    /\ returned = {}

\* a call of step while the system is synchronized
SeqStep ==
    /\ fsteps < MaxSeqSteps
    /\ fresult.kind # "Panic"
    /\ \E new_tuple \in SeqTuples(fsteps + 1) : DoStep(new_tuple, "NoWarning")

FilterSeqNext == SeqStep

SpecFilterSeq == FilterSeqInit /\ [][FilterSeqNext]_vars

(***************************************************************************)
(* The selector as a state machine                                         *)
(***************************************************************************)
\* the filter before any call
FilterIdle ==
    /\ register = NewRegister
    /\ peer_time = 0
    /\ system_precision = 0
    /\ overflow_checks = FALSE
    /\ fcall = NoCall
    /\ fresult = [kind |-> "none"]
    /\ fsteps = 0
    /\ returned = {}

\* offset, uncertainty, delay and leap indicator of the candidates: points
\* and intervals that are disjoint, that overlap and that touch
CandidateShapes ==
    {<<o, ud[1], ud[2], "NoWarning">> : o \in {0, 4, 5}, ud \in {<<0, 0>>, <<1, 1>>}}
    \cup {<<4, 1, 1, "Unknown">>, <<0, 0, 0, "Unknown">>}

CandidateLists(longest) ==
    UNION {
        {[i \in 1..n |-> PeerSnapshot(i, f[i][1], f[i][2], f[i][3], f[i][4])] :
            f \in [1..n -> CandidateShapes]} : n \in 0..longest}

SelectConfigs ==
    {[min_intersection_survivors |-> m, max_peer_uncertainty |-> u,
      range_statistical_weight |-> 1, range_delay_weight |-> w] :
        m \in 1..3, u \in {1, 2}, w \in {0, 1}}

\* the candidates of test_weighing, lines 88-93, in units of 0.01 s
WeighingCandidates ==
    << PeerSnapshot(1, 0, 1, 9, "NoWarning"), PeerSnapshot(2, 0, 9, 1, "NoWarning"),
       PeerSnapshot(3, 5, 1, 9, "NoWarning"), PeerSnapshot(4, 5, 9, 1, "NoWarning") >>

\* the configurations of test_weighing, lines 94-126: max_peer_uncertainty
\* of 1 s and one weight or both
WeighingConfigs ==
    {[min_intersection_survivors |-> 4, max_peer_uncertainty |-> 100,
      range_statistical_weight |-> w[1], range_delay_weight |-> w[2]] :
        w \in {<<1, 0>>, <<0, 1>>, <<1, 1>>}}

\* offset, uncertainty and delay of the candidates of two clusters, in units
\* of 0.01 s: near 0 as in test_min_survivors (lines 178-185) or a little
\* off it, at 0 with no uncertainty and no delay, and well apart of those
ClusterShapes == {<<0, 10, 10>>, <<10, 10, 10>>, <<0, 0, 0>>, <<60, 10, 10>>}

\* lists of five candidates in clusters
ClusterLists ==
    {[i \in 1..5 |-> PeerSnapshot(i, f[i][1], f[i][2], f[i][3], "NoWarning")] :
        f \in [1..5 -> ClusterShapes]}

\* the configurations of test_min_survivors, lines 186-206
ClusterConfigs ==
    {[min_intersection_survivors |-> m, max_peer_uncertainty |-> 300,
      range_statistical_weight |-> 1, range_delay_weight |-> 1] : m \in {3, 4}}

SelectInit ==
    /\ FilterIdle
    /\ TaskStart
    /\ SockStart
    /\ CalcIdle
    /\ \/ (candidates \in CandidateLists(MaxCandidates) /\ sel_config \in SelectConfigs)
       \/ (candidates = WeighingCandidates /\ sel_config \in WeighingConfigs)
       \/ (candidates \in ClusterLists /\ sel_config \in ClusterConfigs)
    /\ sel_result = [kind |-> "none"]

\* the call of select
Select ==
    /\ sel_result.kind = "none"
    /\ sel_result' = select(sel_config, candidates)
    /\ UNCHANGED <<candidates, sel_config>>
    /\ UNCHANGED <<fvars, tvars, kvars, cvars>>

SelectNext == Select

SpecSelect == SelectInit /\ [][SelectNext]_vars

(***************************************************************************)
(* The selector on candidates of any radius, in both builds                *)
(***************************************************************************)
\* offset, uncertainty, delay and leap indicator of the candidates: a delay
\* below zero makes the radius negative when the delay has a weight
SignedShapes ==
    {<<o, ud[1], ud[2], "NoWarning">> :
        o \in {0, 1}, ud \in {<<0, 0>>, <<1, 1>>, <<0, 0 - 1>>}}
    \cup {<<0, 0, 0 - 1, "Unknown">>}

SignedLists(longest) ==
    UNION {
        {[i \in 1..n |-> PeerSnapshot(i, f[i][1], f[i][2], f[i][3], f[i][4])] :
            f \in [1..n -> SignedShapes]} : n \in 0..longest}

SweepInit ==
    /\ TaskStart
    /\ SockStart
    /\ CalcIdle
    /\ register = NewRegister
    /\ peer_time = 0
    /\ system_precision = 0
    /\ overflow_checks \in BOOLEAN
    /\ fcall = NoCall
    /\ fresult = [kind |-> "none"]
    /\ fsteps = 0
    /\ returned = {}
    /\ candidates \in SignedLists(MaxCandidates)
    /\ sel_config \in SelectConfigs
    /\ sel_result = [kind |-> "none"]

\* the call of select in the build of the program
SelectBuild ==
    /\ sel_result.kind = "none"
    /\ sel_result' = select_build(sel_config, candidates, overflow_checks)
    /\ UNCHANGED <<candidates, sel_config>>
    /\ UNCHANGED <<fvars, tvars, kvars, cvars>>

SweepNext == SelectBuild

SpecSweep == SweepInit /\ [][SweepNext]_vars

(***************************************************************************)
(* The source tasks as a state machine                                     *)
(***************************************************************************)
TaskInit ==
    /\ FilterIdle
    /\ SelectIdle
    /\ TaskStart
    /\ SockStart
    /\ CalcIdle

TaskNext ==
    \/ \E s \in Sources : WakeTimer(s) /\ UNCHANGED <<fvars, svars, kvars, cvars>>
    \/ \E s \in Sources : WakeSystemUpdate(s) /\ UNCHANGED <<fvars, svars, kvars, cvars>>
    \/ \E s \in Sources : WakeRecv(s) /\ UNCHANGED <<fvars, svars, kvars, cvars>>
    \/ \E s \in Sources : Exec(s) /\ UNCHANGED <<fvars, svars, kvars, cvars>>
    \/ \E s \in Sources : CompleteSend(s) /\ UNCHANGED <<fvars, svars, kvars, cvars>>
    \/ SystemRecv /\ UNCHANGED <<fvars, svars, kvars, cvars>>
    \/ CloseReceiver /\ UNCHANGED <<fvars, svars, kvars, cvars>>
    \/ OtherSend /\ UNCHANGED <<fvars, svars, kvars, cvars>>

SpecTask == TaskInit /\ [][TaskNext]_vars

\* The runtime polls a task that can run, the channel hands its room to the
\* senders that wait for it in the order they came, and the system keeps
\* taking messages from its end of the channel.
TaskFairness ==
    /\ \A s \in Sources : SF_vars(CompleteSend(s) /\ UNCHANGED <<fvars, svars, kvars, cvars>>)
    /\ WF_vars(SystemRecv /\ UNCHANGED <<fvars, svars, kvars, cvars>>)

SpecTaskFair == SpecTask /\ TaskFairness

(***************************************************************************)
(* The first poll of a source task                                         *)
(***************************************************************************)
PollNext ==
    \/ \E s \in Sources : WakePoll(s) /\ UNCHANGED <<fvars, svars, kvars, cvars>>
    \/ \E s \in Sources : Exec(s) /\ UNCHANGED <<fvars, svars, kvars, cvars>>
    \/ \E s \in Sources : CompleteSend(s) /\ UNCHANGED <<fvars, svars, kvars, cvars>>
    \/ SystemRecv /\ UNCHANGED <<fvars, svars, kvars, cvars>>
    \/ CloseReceiver /\ UNCHANGED <<fvars, svars, kvars, cvars>>
    \/ OtherSend /\ UNCHANGED <<fvars, svars, kvars, cvars>>

SpecPoll == TaskInit /\ [][PollNext]_vars

(***************************************************************************)
(* Two source tasks that share the snapshot map and the channel            *)
(***************************************************************************)
\* both tasks as spawn starts them: lines 373-385
SharedInit ==
    /\ FilterIdle
    /\ SelectIdle
    /\ SockStart
    /\ CalcIdle
    /\ pc = [s \in SourceIds |-> "wait"]
    /\ actions = [s \in SourceIds |-> <<>>]
    /\ socket = [s \in SourceIds |-> NoSocket]
    /\ last_send_timestamp = [s \in SourceIds |-> NoTimestamp]
    /\ deadline = [s \in SourceIds |-> InitialDeadline]
    /\ wakes = [s \in SourceIds |-> 0]
    /\ ctrl = [s \in SourceIds |-> 0]
    /\ produced = [s \in SourceIds |-> "none"]
    /\ clock_calls = [s \in SourceIds |-> {}]
    /\ transmitted = [s \in SourceIds |-> 0]
    /\ snapshots = [s \in SourceIds |-> Absent]
    /\ chan = <<>>
    /\ chan_closed = FALSE
    /\ sending = [s \in SourceIds |-> NoMsg]
    /\ exited = FALSE
    /\ event = Ev("none", "init", "none", "none", 0, 0, NoTimestamp)

\* what handle_timer returns to the tasks that share the map: nothing, one
\* action, or a SourceUpdate before the action that ends the task
SharedBatches ==
    {<<>>, <<"Send">>, <<"UpdateSystem">>, <<"Reset">>, <<"Demobilize">>,
     <<"UpdateSystem", "Demobilize">>}

\* select! delivers the timer to one of the tasks: lines 193-205
WakeShared(s) ==
    /\ ~exited /\ CanSelect(s) /\ wakes[s] < MaxWakes
    /\ \E batch \in SharedBatches : Handle(s, "Timer", batch, 0, NoTimestamp)
    /\ UNCHANGED <<clock_calls, transmitted>>

SharedNext ==
    \/ \E s \in SourceIds : WakeShared(s) /\ UNCHANGED <<fvars, svars, kvars, cvars>>
    \/ \E s \in SourceIds : WakeRecv(s) /\ UNCHANGED <<fvars, svars, kvars, cvars>>
    \/ \E s \in SourceIds : Exec(s) /\ UNCHANGED <<fvars, svars, kvars, cvars>>
    \/ \E s \in SourceIds : CompleteSend(s) /\ UNCHANGED <<fvars, svars, kvars, cvars>>
    \/ SystemRecv /\ UNCHANGED <<fvars, svars, kvars, cvars>>

SpecShared == SharedInit /\ [][SharedNext]_vars

(***************************************************************************)
(* Calls of single functions of filter.rs as a state machine               *)
(***************************************************************************)
CalcInit ==
    /\ FilterIdle
    /\ SelectIdle
    /\ TaskStart
    /\ SockStart
    /\ calc_call \in CalcCalls
    /\ calc_result = [kind |-> "none"]

CalcNext ==
    \/ CalcDispersion /\ UNCHANGED <<fvars, svars, tvars, kvars>>
    \/ CalcJitter /\ UNCHANGED <<fvars, svars, tvars, kvars>>
    \/ CalcFromPacket /\ UNCHANGED <<fvars, svars, tvars, kvars>>

SpecCalc == CalcInit /\ [][CalcNext]_vars

(***************************************************************************)
(* The sock source task as a state machine                                 *)
(***************************************************************************)
SockInit ==
    /\ FilterIdle
    /\ SelectIdle
    /\ TaskStart
    /\ SockStart
    /\ CalcIdle

SockNext ==
    \/ SockRecv /\ UNCHANGED <<fvars, svars, tvars, cvars>>
    \/ SockSystemUpdate /\ UNCHANGED <<fvars, svars, tvars, cvars>>
    \/ SockCompleteSend /\ UNCHANGED <<fvars, svars, tvars, cvars>>
    \/ SockSystemRecv /\ UNCHANGED <<fvars, svars, tvars, cvars>>
    \/ SockCloseReceiver /\ UNCHANGED <<fvars, svars, tvars, cvars>>

SpecSock == SockInit /\ [][SockNext]_vars


(***************************************************************************)
(* Properties of the clock filter                                          *)
(***************************************************************************)
\* a is later than b, in the wrapping arithmetic of NtpTimestamp
Later(a, b) == TsSub(a, b) > 0

\* the smallest-delay tuple of a register: of the tuples of least delay the
\* one in the lowest slot
BestOf(reg) ==
    LET least == {i \in 1..8 : \A j \in 1..8 : reg[i].delay <= reg[j].delay}
    IN  reg[CHOOSE i \in least : \A j \in least : i <= j]

Called == fsteps > 0

\* C1: step returns None if and only if the system leap indicator is
\* synchronized and the smallest-delay tuple of the register, after the new
\* tuple has been inserted, has a time that is not later than peer_time; with
\* an unsynchronized leap indicator step returns Some for every register and
\* every new tuple.
C1_NoneIffPrimeDirective ==
    Called =>
        /\ (fresult.kind = "None") <=>
              (is_synchronized(fcall.leap)
                  /\ ~Later(BestOf(register).time, fcall.peer_time))
        /\ (~is_synchronized(fcall.leap) => fresult.kind = "Some")

\* C2: with a synchronized system and the caller passing the time of the
\* most recent Some result as peer_time, every Some result carries a time
\* later than the peer_time of its call, becomes the next peer_time, and is
\* a stored sample that no earlier call has returned.
C2_SampleUsedOnce ==
    [][(fresult'.kind = "Some") =>
          /\ Later(fresult'.time, peer_time)
          /\ peer_time' = fresult'.time
          /\ fresult'.id \notin returned]_vars

\* two Some results with a None after them
C2_Witness ==
    /\ Cardinality(returned) >= 2
    /\ fresult.kind = "None"
    /\ is_synchronized(fcall.leap)

\* C3, as stated: filter identity: on a register of 8 DUMMYs, step with a
\* new tuple whose time equals peer_time and a synchronized system leap
\* indicator returns None, whatever the offset, delay, dispersion and
\* peer_time.
C3_FilterIdentityAsStated ==
    (Called /\ fcall.fresh /\ fcall.new_tuple.time = fcall.peer_time
        /\ is_synchronized(fcall.leap))
    => fresult.kind = "None"

\* C3, amended: the same for every new tuple whose delay is at most
\* MAX_DISPERSION.
C3_FilterIdentity ==
    (Called /\ fcall.fresh /\ fcall.new_tuple.time = fcall.peer_time
        /\ is_synchronized(fcall.leap)
        /\ fcall.new_tuple.delay <= MAX_DISPERSION)
    => fresult.kind = "None"

\* a fresh register, a peer time in the upper half of the era and a sample
\* of that time with delay MAX_DISPERSION
C3_Witness ==
    /\ Called /\ fcall.fresh
    /\ fcall.new_tuple.time = fcall.peer_time
    /\ fcall.peer_time > TimeHalf
    /\ fcall.new_tuple.delay = MAX_DISPERSION
    /\ is_synchronized(fcall.leap)
    /\ fresult.kind = "None"

\* C4, as stated: filter freshness: on a register of 8 DUMMYs, step with a
\* new tuple whose time is later than peer_time returns Some((stats, time of
\* the new tuple)) with the offset and the delay of the new tuple and a
\* jitter of 0.
C4_FreshnessAsStated ==
    (Called /\ fcall.fresh /\ Later(fcall.new_tuple.time, fcall.peer_time))
    => /\ fresult.kind = "Some"
       /\ fresult.time = fcall.new_tuple.time
       /\ fresult.offset = fcall.new_tuple.offset
       /\ fresult.delay = fcall.new_tuple.delay
       /\ fresult.jitter = 0

\* C4, amended: the same for a new tuple that is not equal to DUMMY and
\* whose delay is at most MAX_DISPERSION, with a jitter equal to the system
\* precision (0 when the precision is 0).
C4_Freshness ==
    (Called /\ fcall.fresh /\ Later(fcall.new_tuple.time, fcall.peer_time)
        /\ fcall.new_tuple.delay <= MAX_DISPERSION
        /\ ~is_dummy(fcall.new_tuple))
    => /\ fresult.kind = "Some"
       /\ fresult.time = fcall.new_tuple.time
       /\ fresult.offset = fcall.new_tuple.offset
       /\ fresult.delay = fcall.new_tuple.delay
       /\ fresult.jitter = system_precision

\* a fresh register, a later sample of delay MAX_DISPERSION, a synchronized
\* system and a positive precision
C4_Witness ==
    /\ Called /\ fcall.fresh
    /\ Later(fcall.new_tuple.time, fcall.peer_time)
    /\ fcall.new_tuple.delay = MAX_DISPERSION
    /\ ~is_dummy(fcall.new_tuple)
    /\ is_synchronized(fcall.leap)
    /\ system_precision > 0
    /\ fresult.kind = "Some"

(***************************************************************************)
(* Properties of the selector                                              *)
(***************************************************************************)
SelCalled == sel_result.kind # "none"

\* the interval of a candidate and its eligibility, as the specification
\* defines them
RadiusOf(c) ==
    c.uncertainty * sel_config.range_statistical_weight
        + c.delay * sel_config.range_delay_weight
LowerOf(c) == c.offset - RadiusOf(c)
UpperOf(c) == c.offset + RadiusOf(c)
EligibleC(c) ==
    RadiusOf(c) <= sel_config.max_peer_uncertainty
        /\ c.leap_indicator \in {"NoWarning", "Leap61", "Leap59"}
EligibleSet == {i \in 1..Len(candidates) : EligibleC(candidates[i])}
Covers(c, x) == LowerOf(c) <= x /\ x <= UpperOf(c)

\* the largest number of eligible intervals that cover one point
CoverAt(x) == Cardinality({i \in EligibleSet : Covers(candidates[i], x)})
EndPoints ==
    {LowerOf(candidates[i]) : i \in EligibleSet}
        \cup {UpperOf(candidates[i]) : i \in EligibleSet}
MaxCover ==
    IF EndPoints = {} THEN 0
    ELSE CHOOSE m \in {CoverAt(x) : x \in EndPoints} :
            \A x \in EndPoints : CoverAt(x) <= m

SurvivorSet == {sel_result.survivors[k] : k \in 1..Len(sel_result.survivors)}

\* C5: selector admissibility: no candidate whose radius exceeds
\* max_peer_uncertainty and no candidate with an unsynchronized leap
\* indicator is in the output of select, and such candidates contribute no
\* bound to the sweep: the bounds are the two ends of each eligible candidate.
C5_Admissibility ==
    SelCalled =>
        /\ \A c \in SurvivorSet : EligibleC(c)
        /\ Len(sel_result.bounds) = 2 * Cardinality(EligibleSet)
        /\ \A k \in 1..Len(sel_result.bounds) :
              \E i \in EligibleSet :
                  \/ /\ sel_result.bounds[k].type = "Start"
                     /\ sel_result.bounds[k].value = LowerOf(candidates[i])
                  \/ /\ sel_result.bounds[k].type = "End"
                     /\ sel_result.bounds[k].value = UpperOf(candidates[i])

\* survivors, next to an unsynchronized candidate and a candidate of too
\* large a radius whose intervals both cover the point of the survivors
C5_Witness ==
    /\ SelCalled
    /\ sel_result.survivors # <<>>
    /\ \E i \in 1..Len(candidates) :
          /\ candidates[i].leap_indicator = "Unknown"
          /\ RadiusOf(candidates[i]) <= sel_config.max_peer_uncertainty
          /\ Covers(candidates[i], sel_result.maxt)
    /\ \E i \in 1..Len(candidates) :
          /\ candidates[i].leap_indicator = "NoWarning"
          /\ RadiusOf(candidates[i]) > sel_config.max_peer_uncertainty
          /\ Covers(candidates[i], sel_result.maxt)

\* C6: selector majority: when the largest number of eligible intervals that
\* cover one point is max and 4*max <= 2*n_eligible, select returns the empty
\* list.
C6_Majority ==
    SelCalled =>
        (4 * MaxCover <= 2 * Cardinality(EligibleSet) => sel_result.survivors = <<>>)

\* C7: selector emptiness: when fewer than min_intersection_survivors
\* eligible intervals cover the point of densest overlap, select returns the
\* empty list.
C7_Emptiness ==
    SelCalled =>
        (MaxCover < sel_config.min_intersection_survivors
            => sel_result.survivors = <<>>)

\* the running Start/End counter after the first k sorted bounds
RunCount(k) ==
    Cardinality({j \in 1..k : sel_result.bounds[j].type = "Start"})
        - Cardinality({j \in 1..k : sel_result.bounds[j].type = "End"})
SweepMax ==
    IF sel_result.bounds = <<>> THEN 0
    ELSE CHOOSE m \in {RunCount(k) : k \in 1..Len(sel_result.bounds)} :
            \A k \in 1..Len(sel_result.bounds) : RunCount(k) <= m
AtMax == {k \in 1..Len(sel_result.bounds) : RunCount(k) = SweepMax}
FirstAtMax == CHOOSE k \in AtMax : \A j \in AtMax : k <= j
SweepValid ==
    /\ SweepMax >= sel_config.min_intersection_survivors
    /\ 4 * SweepMax > Len(sel_result.bounds)

\* C8: when the intersection is valid (max >= min_intersection_survivors and
\* 4*max > number of bounds), select returns exactly the eligible candidates,
\* in the order of the input, whose closed interval contains maxt, the first
\* bound value in sorted order at which the running counter reaches its
\* overall maximum.
C8_SurvivorsCoverMaxt ==
    (SelCalled /\ SweepValid) =>
        /\ sel_result.kind = "Ok"
        /\ \A j, k \in 1..Len(sel_result.bounds) :
              j < k => sel_result.bounds[j].value <= sel_result.bounds[k].value
        /\ sel_result.survivors =
              SelectSeq(candidates,
                  LAMBDA c : EligibleC(c)
                      /\ Covers(c, sel_result.bounds[FirstAtMax].value))

\* a valid intersection whose counter reaches its maximum at two values and
\* an eligible candidate that does not cover the first of them
C8_Witness ==
    /\ SelCalled /\ SweepValid
    /\ \E k \in AtMax :
          sel_result.bounds[k].value # sel_result.bounds[FirstAtMax].value
    /\ sel_result.survivors # <<>>
    /\ \E i \in EligibleSet :
          ~Covers(candidates[i], sel_result.bounds[FirstAtMax].value)

(***************************************************************************)
(* Properties of the source task                                           *)
(***************************************************************************)
\* the step taken is an iteration of the for loop of task s
Executes(s) == event'.kind = "exec" /\ event'.source = s

\* the step taken is task s handling a result of select!
HandlesWake(s) == event'.kind = "wake" /\ event'.source = s

\* C9: the actions one controller call returned are executed in the order of
\* the sequence returned: each iteration of the for loop takes the first
\* action not yet executed, nothing else touches the sequence, and the task
\* handles no timer expiry, packet or system update while actions of the
\* sequence are still to be executed.
C9_BatchInOrder ==
    [][\A s \in Sources :
          /\ Executes(s) =>
                /\ actions[s] # <<>>
                /\ event'.what = Head(actions[s])
                /\ (actions'[s] = Tail(actions[s]) \/ exited')
          /\ HandlesWake(s) => actions[s] = <<>> /\ pc[s] = "wait"
          /\ (actions'[s] # actions[s]) => (Executes(s) \/ HandlesWake(s))]_vars

\* the one controller call made so far returned Send then SetTimer, both
\* have been executed in that order and the task is back in select!
C9_Witness ==
    /\ event.source = "s1" /\ event.kind = "exec" /\ event.what = "SetTimer"
    /\ wakes["s1"] = 1
    /\ socket["s1"] # NoSocket /\ last_send_timestamp["s1"] # NoTimestamp
    /\ deadline["s1"] # InitialDeadline
    /\ actions["s1"] = <<>> /\ pc["s1"] = "wait"

\* the task waits in the send of the last message of a Reset or Demobilize
InLastSend(s) ==
    pc[s] = "blocked" /\ sending[s].kind \in {"Unreachable", "MustDemobilize"}

\* the step taken passes m to the channel and ends the task, or leaves the
\* task waiting in the send of m
Sends(s, m) ==
    \/ /\ pc'[s] = "done"
       /\ chan' = IF chan_closed THEN chan ELSE Append(chan, m)
       /\ snapshots'[s] = Absent
    \/ /\ pc'[s] = "blocked"
       /\ sending'[s] = m
       /\ chan' = chan

C10_ResetDemobilizeStep ==
    [][\A s \in Sources :
          /\ (Executes(s) /\ event'.what = "Reset") =>
                Sends(s, [kind |-> "Unreachable", id |-> s])
          /\ (Executes(s) /\ event'.what = "Demobilize") =>
                Sends(s, [kind |-> "MustDemobilize", id |-> s])
          /\ InLastSend(s) =>
                /\ ~Executes(s) /\ ~HandlesWake(s)
                /\ \/ pc'[s] = "blocked" /\ sending'[s] = sending[s]
                   \/ Sends(s, sending[s])
          /\ pc[s] = "done" =>
                /\ ~Executes(s) /\ ~HandlesWake(s)
                /\ pc'[s] = "done"]_vars

\* C10: executing Reset sends Unreachable, executing Demobilize sends
\* MustDemobilize, each with the SourceId of the task itself; the task then
\* executes no further action and handles no further wake-up, and it ends as
\* soon as the send has returned, which it does.
C10_ResetDemobilize ==
    /\ C10_ResetDemobilizeStep
    /\ \A s \in Sources : InLastSend(s) ~> (pc[s] = "done")

\* a Reset that was followed by another action in its sequence: Unreachable
\* of s1 is in the channel, the task has ended, its snapshot is gone and the
\* action that followed was never executed
C10_Witness ==
    /\ event.source = "s1" /\ event.kind = "exec" /\ event.what = "Reset"
    /\ pc["s1"] = "done"
    /\ actions["s1"] # <<>>
    /\ snapshots["s1"] = Absent
    /\ chan # <<>> /\ chan[Len(chan)] = [kind |-> "Unreachable", id |-> "s1"]

\* the step taken puts a datagram of task s on the wire
Transmits(s) ==
    Executes(s) /\ event'.what = "Send" /\ event'.outcome \in {"sent", "sent_kernel"}

C11_DemobilizedStep ==
    [][\A s \in Sources :
          produced[s] = "MustDemobilize" =>
              /\ ~Transmits(s) /\ ~Executes(s) /\ ~HandlesWake(s)
              /\ pc'[s] \in {"blocked", "done"}
              /\ socket'[s] = socket[s]
              /\ produced'[s] = "MustDemobilize"]_vars

\* C11: once the task has handed MustDemobilize to the channel it transmits
\* no packet, executes no action and handles no timer tick, packet or system
\* update any more, and it ends.
C11_DemobilizeStopsPoll ==
    /\ C11_DemobilizedStep
    /\ \A s \in Sources : (produced[s] = "MustDemobilize") ~> (pc[s] = "done")

\* a task that had transmitted, then demobilized and ended while it could
\* still be woken, and the system has gone on since
C11_Witness ==
    /\ produced["s1"] = "MustDemobilize" /\ pc["s1"] = "done"
    /\ socket["s1"] # NoSocket /\ last_send_timestamp["s1"] # NoTimestamp
    /\ wakes["s1"] < MaxWakes
    /\ event.kind \in {"system", "other"}

\* the step taken is a recv of task s, or the send of a Send action of task
\* s, that failed with errno e
FailsWith(s, e) ==
    /\ event'.outcome = e
    /\ \/ HandlesWake(s) /\ event'.what = "Recv"
       \/ Executes(s) /\ event'.what = "Send"

C12_ErrnoStep ==
    [][\A s \in Sources :
          /\ \A e \in {"EHOSTDOWN", "EHOSTUNREACH", "ENETDOWN", "ENETUNREACH"} :
                FailsWith(s, e) =>
                    /\ Sends(s, [kind |-> "NetworkIssue", id |-> s])
                    /\ produced'[s] = "NetworkIssue"
          /\ \A e \in {"ECONNREFUSED", "no_errno"} :
                FailsWith(s, e) =>
                    /\ chan' = chan /\ sending' = sending /\ produced' = produced
                    /\ snapshots' = snapshots
                    /\ pc'[s] \in {"wait", "exec"}
                    /\ pc'[s] = "wait" => actions'[s] = <<>>]_vars

\* C12: a recv or a send that fails with EHOSTDOWN, EHOSTUNREACH, ENETDOWN or
\* ENETUNREACH makes the task send NetworkIssue with its own id and end; one
\* that fails with another errno, or with none, sends nothing to the system
\* and leaves the task in its loop, where it handles the wake-ups to come.
C12_NetworkErrors ==
    /\ C12_ErrnoStep
    /\ \A s \in Sources : (produced[s] = "NetworkIssue") ~> (pc[s] = "done")

\* a recv that failed with ENETUNREACH: NetworkIssue of s1 is in the channel,
\* the snapshot is gone and the task has ended
C12_Witness ==
    /\ event.source = "s1" /\ event.kind = "wake" /\ event.what = "Recv"
    /\ event.outcome = "ENETUNREACH"
    /\ pc["s1"] = "done" /\ snapshots["s1"] = Absent
    /\ chan # <<>> /\ chan[Len(chan)] = [kind |-> "NetworkIssue", id |-> "s1"]

\* C13: executing UpdateSystem never leaves the task waiting in the send to
\* the MsgForSystem channel: when the channel has no room the message is
\* dropped, the channel stays as it is and the task goes on with its loop.
C13_UpdateSystemNeverSuspends ==
    [][\A s \in Sources :
          (Executes(s) /\ event'.what = "UpdateSystem") =>
              /\ pc'[s] \in {"wait", "exec"}
              /\ (~chan_closed /\ Len(chan) >= ChanCap) => chan' = chan]_vars

\* the step taken is a terminal decision of task s: a Reset or a Demobilize,
\* a recv or a send that failed with a network errno, or a socket that
\* could not be opened
Decides(s) ==
    \/ Executes(s) /\ event'.what \in {"Reset", "Demobilize"}
    \/ Executes(s) /\ event'.what = "Send" /\ event'.outcome = "setup_abort"
    \/ \E e \in {"EHOSTDOWN", "EHOSTUNREACH", "ENETDOWN", "ENETUNREACH"} :
          FailsWith(s, e)

C14_ClosedStep ==
    [][\A s \in Sources :
          /\ (chan_closed /\ Decides(s)) =>
                /\ pc'[s] = "done"
                /\ snapshots'[s] = Absent
                /\ chan' = chan /\ sending' = sending
          /\ chan_closed => chan_closed']_vars

\* C14: with the receiver of the MsgForSystem channel gone, a task that makes
\* a terminal decision removes its snapshot and ends in that very step, and
\* a task that was waiting in a send when the receiver went does not stay
\* there: after a last message it removes its snapshot and ends.
C14_ClosedChannelExit ==
    /\ C14_ClosedStep
    /\ \A s \in Sources :
          (chan_closed /\ pc[s] = "blocked") ~> (pc[s] # "blocked")
    /\ \A s \in Sources :
          (chan_closed /\ pc[s] = "blocked" /\ sending[s].kind # "SourceUpdate")
              ~> (pc[s] = "done" /\ snapshots[s] = Absent)

\* the receiver is gone and the task has just executed Demobilize: it has
\* ended, its snapshot is removed and nothing is left pending
C14_Witness ==
    /\ chan_closed
    /\ event.source = "s1" /\ event.kind = "exec" /\ event.what = "Demobilize"
    /\ pc["s1"] = "done" /\ snapshots["s1"] = Absent
    /\ sending["s1"] = NoMsg

\* the step taken is task s handling a datagram that recv returned
Receives(s) ==
    /\ HandlesWake(s) /\ event'.what = "Recv"
    /\ event'.outcome \in {"handled", "unsolicited", "short", "panic"}

\* C16: a datagram of fewer than 48 bytes never reaches the controller: no
\* controller call is made and no action is left to execute, the controller,
\* last_send_timestamp and the snapshot map stay as they are and the task is
\* back in its wait; a datagram of 48 bytes or more is accepted with the
\* length recv reported.
C16_ShortDatagramDropped ==
    [][\A s \in Sources :
          Receives(s) =>
              IF event'.arg < 48
              THEN /\ ctrl' = ctrl /\ actions'[s] = <<>>
                   /\ last_send_timestamp' = last_send_timestamp
                   /\ snapshots' = snapshots
                   /\ pc'[s] = "wait"
              ELSE /\ event'.outcome \in {"handled", "unsolicited"}
                   /\ \A t, c \in BOOLEAN :
                         accept_packet(RecvOk(event'.arg, t), c).kind = "Accept" =>
                             accept_packet(RecvOk(event'.arg, t), c).len = event'.arg]_vars

\* C17: a Send action stores the clock reading it took before transmitting;
\* after a transmit that succeeded last_send_timestamp is the kernel's send
\* timestamp of that transmit when there is one, and that clock reading
\* otherwise; it changes at no other step, and handle_incoming is given the
\* stored value as send timestamp.
C17_SendTimestamp ==
    [][\A s \in Sources :
          /\ (Executes(s) /\ event'.what = "Send") =>
                LET used == socket'[s]
                    reading == [from |-> "clock", send |-> used]
                IN  /\ event'.outcome = "sent_kernel" =>
                          last_send_timestamp'[s] = [from |-> "kernel", send |-> used]
                    /\ event'.outcome = "sent" => last_send_timestamp'[s] = reading
                    /\ event'.outcome \in Errnos =>
                          last_send_timestamp'[s] = reading
                    /\ event'.outcome \in {"setup_abort", "clock_fail"} =>
                          last_send_timestamp'[s] = last_send_timestamp[s]
                    /\ event'.outcome \notin {"setup_abort", "clock_fail"} =>
                          event'.ts = reading
          /\ ~(Executes(s) /\ event'.what = "Send") =>
                last_send_timestamp'[s] = last_send_timestamp[s]
          /\ (HandlesWake(s) /\ event'.what = "Recv" /\ event'.outcome = "handled") =>
                /\ event'.ts = last_send_timestamp[s]
                /\ event'.ts # NoTimestamp]_vars

\* the second Send of the task got a kernel timestamp, and the packet that
\* came back was handed to the controller with that timestamp
C17_Witness ==
    /\ event.source = "s1" /\ event.kind = "wake" /\ event.what = "Recv"
    /\ event.outcome = "handled"
    /\ socket["s1"] = 2
    /\ event.ts = [from |-> "kernel", send |-> 2]
    /\ last_send_timestamp["s1"] = event.ts

\* the step taken is task s handling a wake-up with a controller call: a
\* timer expiry, a system update that was received, or a packet accepted
\* while a request is outstanding
Controls(s) == HandlesWake(s) /\ event'.outcome = "handled"

\* C18: every wake-up handled with a controller call (each timer expiry, each
\* system update received, each packet accepted with a request outstanding)
\* stores the observe() of the controller as it is after that call under the
\* SourceId of the task and touches no other entry, and this is done before
\* the first action of the call is executed: whenever an action is executed
\* the entry of the task is the controller's latest state.
C18_SnapshotRefreshed ==
    [][\A s \in Sources :
          /\ Controls(s) =>
                /\ event'.what \in {"Timer", "SystemUpdate", "Recv"}
                /\ ctrl'[s] = ctrl[s] + 1
                /\ snapshots'[s] = ctrl'[s]
                /\ \A o \in SourceIds \ {s} : snapshots'[o] = snapshots[o]
          /\ (HandlesWake(s) /\ event'.what = "Timer") => Controls(s)
          /\ (HandlesWake(s) /\ event'.what = "SystemUpdate") =>
                event'.outcome \in {"handled", "error"}
          /\ (HandlesWake(s) /\ event'.what = "Recv" /\ event'.arg >= 48
                /\ event'.outcome \notin {"panic"} \cup Errnos
                /\ last_send_timestamp[s] # NoTimestamp) => Controls(s)
          /\ ctrl'[s] # ctrl[s] => Controls(s)
          /\ Executes(s) => (ctrl[s] > 0 /\ snapshots[s] = ctrl[s])]_vars

\* the second controller call of the task, made for a system update, has
\* returned actions: the entry of s1 holds the state after that call and
\* none of the actions has been executed yet
C18_Witness ==
    /\ event.source = "s1" /\ event.kind = "wake" /\ event.what = "SystemUpdate"
    /\ event.outcome = "handled"
    /\ ctrl["s1"] = 2 /\ snapshots["s1"] = 2
    /\ pc["s1"] = "exec" /\ Len(actions["s1"]) = MaxBatch

\* the step taken is a Send action of task s that got its socket
SendsOn(s) ==
    Executes(s) /\ event'.what = "Send" /\ event'.outcome # "setup_abort"

C20_SetTimer ==
    [][\A s \in Sources :
          /\ (Executes(s) /\ event'.what = "SetTimer") =>
                /\ IF event'.now + event'.arg <= InstantMax
                   THEN deadline'[s] = event'.now + event'.arg
                   ELSE deadline'[s] = deadline[s]
                /\ actions'[s] = Tail(actions[s])
                /\ pc'[s] = IF actions'[s] = <<>> THEN "wait" ELSE "exec"
                /\ ~exited'
          /\ deadline'[s] # deadline[s] =>
                (Executes(s) /\ event'.what = "SetTimer")]_vars

\* a SetTimer whose addition overflowed, executed by a task whose timer had
\* been armed before: the deadline is still there and the next action of the
\* sequence is up
C20_Witness ==
    /\ event.source = "s1" /\ event.kind = "exec" /\ event.what = "SetTimer"
    /\ event.now + event.arg > InstantMax
    /\ deadline["s1"] # InitialDeadline
    /\ pc["s1"] = "exec" /\ actions["s1"] # <<>>

\* C21: whatever timer ticks, packets, system updates and actions occur,
\* the only operation a source task invokes on its clock is now(): it never
\* calls step_clock, error_estimate_update, set_frequency, status_update or
\* disable_ntp_algorithm.
C21_ClockReadOnly ==
    \A s \in Sources :
        /\ clock_calls[s] \subseteq {"now"}
        /\ clock_calls[s] \cap {"step_clock", "error_estimate_update", "set_frequency",
                                "status_update", "disable_ntp_algorithm"} = {}

\* the task has sent a request and has been handed the packet that came
\* back: it has read the clock and done nothing else with it
C21_Witness ==
    /\ event.source = "s1" /\ event.kind = "wake" /\ event.what = "Recv"
    /\ event.outcome = "handled"
    /\ clock_calls["s1"] = {"now"}

\* the last step was the sock source task reading a datagram from its socket
SockReads == sock_event'.kind = "SockRecv" /\ sock_event'.datagram # <<>>

\* C22: the sock source task rejects a received sample when its size is not
\* 40 bytes, when its magic differs from 0x534F434B or when its pulse is not
\* 0: for such a sample handle_measurement is not called, no message is sent
\* and the task keeps reading; a sample that passes the three checks produces
\* exactly one message to the system.
C22_SampleChecks ==
    [][SockReads =>
         LET d == sock_event'.datagram
             passes == /\ Len(d) = 40
                       /\ i32_from_le_bytes(SubSeq(d, 37, 40)) = 1397703499
                       /\ i32_from_le_bytes(SubSeq(d, 25, 28)) = 0
         IN  IF passes
             THEN sock_sent' = sock_sent + 1
             ELSE /\ sock_measured' = sock_measured
                  /\ sock_sent' = sock_sent
                  /\ sock_pc' = "select"]_vars

\* the step taken is task s executing a Send action
ExecutesSend(s) == Executes(s) /\ event'.what = "Send"

C24_JitterFloor ==
    /\ fresult.kind = "Some" => fresult.jitter >= system_precision
    /\ LET temporary_list == from_clock_filter_contents(register)
           j == jitter(temporary_list, smallest_delay(temporary_list),
                       system_precision, overflow_checks)
       IN  j.kind = "value" => j.value >= system_precision

\* step has returned statistics for two samples with the same offset under a
\* system precision that is not 0: the quotient is 0 and the jitter is the
\* precision
C24_Witness ==
    /\ fresult.kind = "Some" /\ fsteps = 2
    /\ Len(valid_tuples(from_clock_filter_contents(register))) = 2
    /\ system_precision > 0
    /\ fresult.jitter = system_precision

\* C25: the dispersion of a temporary list is the sum over its slots
\* i = 0..7 of slot i's dispersion divided by 2^(i+1); for a list of 8 DUMMY
\* tuples, whose dispersion is MAX_DISPERSION (16 s), the sum is a little less
\* than 16 s and within 0.1 s of it.
C25_Dispersion ==
    calc_result.kind = "dispersion" =>
        LET l == calc_call.list
            d(i) == l[i + 1].dispersion
        IN  /\ calc_result.value =
                  TruncDiv(d(0), 2) + TruncDiv(d(1), 4) + TruncDiv(d(2), 8)
                  + TruncDiv(d(3), 16) + TruncDiv(d(4), 32) + TruncDiv(d(5), 64)
                  + TruncDiv(d(6), 128) + TruncDiv(d(7), 256)
            /\ (\A i \in 0..7 : d(i) = Seconds(16)) =>
                  /\ calc_result.value < Seconds(16)
                  /\ 10 * (Seconds(16) - calc_result.value) < Seconds(1)

\* dispersion has been computed for the list of 8 DUMMYs
C25_Witness ==
    /\ calc_result.kind = "dispersion"
    /\ \A i \in 1..8 : calc_call.list[i].dispersion = Seconds(16)
    /\ calc_result.value < Seconds(16)

\* C26: jitter is the square root of the sum of the squared differences
\* between each valid tuple's offset and the smallest-delay tuple's offset,
\* divided by the number of valid tuples less one: with system_precision 0 it
\* is 10 for the valid offsets [20, 30] and 5 for [20, 20, 30], the first
\* tuple being the smallest-delay one.
C26_JitterRms ==
    (calc_result.kind = "jitter" /\ calc_call.precision = 0) =>
        LET valid == valid_tuples(calc_call.list)
            n == Len(valid)
            o(i) == valid[i].offset
            squares == IF n = 2 THEN (o(2) - o(1)) * (o(2) - o(1))
                       ELSE (o(2) - o(1)) * (o(2) - o(1)) + (o(3) - o(1)) * (o(3) - o(1))
        IN  /\ n >= 2 =>
                  /\ calc_result.value.kind = "value"
                  /\ calc_result.value.value =
                        ISqrt(squares * JitterScale * JitterScale) \div (n - 1)
            /\ (n = 2 /\ o(1) = 20 /\ o(2) = 30) =>
                  calc_result.value.value = 10 * JitterScale
            /\ (n = 3 /\ o(1) = 20 /\ o(2) = 20 /\ o(3) = 30) =>
                  calc_result.value.value = 5 * JitterScale

\* jitter has been computed for the offsets [20, 20, 30]
C26_Witness ==
    /\ calc_result.kind = "jitter" /\ calc_call.precision = 0
    /\ Len(valid_tuples(calc_call.list)) = 3
    /\ calc_call.list[1].offset = 20 /\ calc_call.list[2].offset = 20
    /\ calc_call.list[3].offset = 30
    /\ calc_result.value.value = 5 * JitterScale

\* (T4 - T1) - (T3 - T2) of the call of from_packet_default
RoundTrip ==
    DurSub(TsSub(calc_call.destination_timestamp, calc_call.packet.origin_timestamp),
           TsSub(calc_call.packet.transmit_timestamp,
                 calc_call.packet.receive_timestamp))

\* C27: for every combination of origin, receive, transmit and destination
\* timestamps the delay of the tuple from_packet_default builds is never
\* negative and never below the system precision: it is (T4 - T1) - (T3 - T2)
\* when that is at least the system precision and the system precision
\* otherwise.
C27_DelayClamped ==
    calc_result.kind = "tuple" =>
        /\ calc_result.value.delay >= 0
        /\ calc_result.value.delay >= calc_call.system_precision
        /\ calc_result.value.delay =
              IF RoundTrip >= calc_call.system_precision THEN RoundTrip
              ELSE calc_call.system_precision

\* a tuple has been built from timestamps whose round trip is negative
C27_Witness ==
    /\ calc_result.kind = "tuple"
    /\ RoundTrip < 0
    /\ calc_call.system_precision > 0
    /\ calc_result.value.delay = calc_call.system_precision

(***************************************************************************)
(* More properties of the selector                                         *)
(***************************************************************************)
\* the candidates select returned
Survivors == {sel_result.survivors[i] : i \in 1..Len(sel_result.survivors)}

\* C28: the radius uses both weighted terms: for the candidates (offset,
\* uncertainty, delay) = (0, 0.01, 0.09), (0, 0.09, 0.01), (0.05, 0.01, 0.09),
\* (0.05, 0.09, 0.01), min_intersection_survivors 4 and max_peer_uncertainty
\* 1, select returns all four candidates when both weights are 1 and none
\* when the weights are (1, 0) or (0, 1).
C28_Weighing ==
    (/\ SelCalled
     /\ Len(candidates) = 4
     /\ \A i \in 1..4 :
           /\ candidates[i].offset = (IF i <= 2 THEN 0 ELSE 5)
           /\ candidates[i].uncertainty = (IF i \in {1, 3} THEN 1 ELSE 9)
           /\ candidates[i].delay = (IF i \in {1, 3} THEN 9 ELSE 1)
           /\ candidates[i].leap_indicator = "NoWarning"
     /\ sel_config.min_intersection_survivors = 4
     /\ sel_config.max_peer_uncertainty = 100) =>
        LET ws == sel_config.range_statistical_weight
            wd == sel_config.range_delay_weight
        IN  /\ (ws = 1 /\ wd = 1) => sel_result.survivors = candidates
            /\ ((ws = 1 /\ wd = 0) \/ (ws = 0 /\ wd = 1)) => sel_result.survivors = <<>>

\* select has returned the four candidates of test_weighing
C28_Witness ==
    /\ SelCalled
    /\ candidates = WeighingCandidates
    /\ sel_config.range_statistical_weight = 1 /\ sel_config.range_delay_weight = 1
    /\ Len(sel_result.survivors) = 4

\* the eligible candidates in two clusters of sizes 3 and 2: the intervals of
\* a cluster have a point in common, and no interval of one cluster meets an
\* interval of the other
TwoClusters(larger, smaller) ==
    /\ larger \cup smaller = EligibleSet /\ larger \cap smaller = {}
    /\ Cardinality(larger) = 3 /\ Cardinality(smaller) = 2
    /\ \A i, j \in larger : LowerOf(candidates[i]) <= UpperOf(candidates[j])
    /\ \A i, j \in smaller : LowerOf(candidates[i]) <= UpperOf(candidates[j])
    /\ \A i \in larger : \A j \in smaller :
          \/ UpperOf(candidates[i]) < LowerOf(candidates[j])
          \/ UpperOf(candidates[j]) < LowerOf(candidates[i])

\* C29 as stated: when the eligible candidates form two disjoint clusters of
\* sizes 3 and 2, select returns exactly the 3 members of the larger cluster when
\* min_intersection_survivors is 3 and nothing when it is 4; members of the
\* smaller cluster are never returned.
C29_Clusters ==
    SelCalled =>
        \A larger, smaller \in SUBSET EligibleSet :
            TwoClusters(larger, smaller) =>
                /\ sel_config.min_intersection_survivors = 3 =>
                      Survivors = {candidates[i] : i \in larger}
                /\ sel_config.min_intersection_survivors = 4 => Survivors = {}
                /\ \A j \in smaller : candidates[j] \notin Survivors

\* the bijections of 1..n
OrdersOf(n) ==
    {p \in [1..n -> 1..n] : \A i, j \in 1..n : p[i] = p[j] => i = j}

\* C30: the selector tolerates any order among bounds with equal value: for
\* every candidate list, select returns the same set of survivors for every
\* permutation of the list, also when one candidate's interval ends exactly
\* where another's starts.
C30_OrderIndependent ==
    SelCalled =>
        \A p \in OrdersOf(Len(candidates)) :
            LET permuted == [i \in 1..Len(candidates) |-> candidates[p[i]]]
                other == select(sel_config, permuted).survivors
            IN  {other[i] : i \in 1..Len(other)} = Survivors

(***************************************************************************)
(* More properties of the filter                                           *)
(***************************************************************************)
\* the valid tuples of the temporary list the last call of step worked on
ValidOfCall == valid_tuples(from_clock_filter_contents(register))

\* C31: whenever step gets past the prime-directive check and computes jitter,
\* the valid prefix of the temporary list holds at least one tuple, so the
\* denominator (number of valid tuples - 1) never underflows; this holds on
\* every path with a synchronized system leap indicator too, also when the
\* inserted tuple equals DUMMY.
C31_ValidNotEmpty ==
    (Called /\ fresult.kind # "None") =>
        /\ Len(ValidOfCall) >= 1
        /\ fresult.kind # "Panic"

\* C32: after shift_and_insert(new, c) the register still has 8 slots; slot 0
\* holds the new tuple unmodified, slot i+1 holds the tuple formerly in slot i
\* for i = 0..6 and the tuple formerly in slot 7 is gone; every former tuple
\* that was not DUMMY has had c added to its dispersion exactly once, and
\* every former DUMMY is still equal to DUMMY.  Consequently after n <= 8
\* steps on a fresh register the slots n..7 are all DUMMY.
C32_ShiftAndInsert ==
    [][fsteps' = fsteps + 1 =>
          LET new == fcall'.new_tuple
              c == multiply_by_phi(TsSub(new.time, peer_time))
          IN  /\ DOMAIN register' = 1..8
              /\ register'[1] = new
              /\ \A i \in 1..7 :
                    /\ register'[i + 1].offset = register[i].offset
                    /\ register'[i + 1].delay = register[i].delay
                    /\ register'[i + 1].time = register[i].time
                    /\ register'[i + 1].id = register[i].id
                    /\ register'[i + 1].dispersion =
                          (IF register[i].offset = 0 /\ register[i].delay = 16
                                 /\ register[i].dispersion = 16 /\ register[i].time = 0
                           THEN 16 ELSE register[i].dispersion + c)
              /\ \A i \in (fsteps' + 1)..8 : register'[i] = DUMMY]_vars

\* two steps on a fresh register: the first sample is in slot 1 with a
\* dispersion that the second step has changed, and slots 2..7 hold DUMMYs
C32_Witness ==
    /\ fsteps = 2
    /\ register[1] = fcall.new_tuple
    /\ register[2].id = 1 /\ register[2].delay # 16
    /\ register[2].dispersion # 0
    /\ \A i \in 3..8 : register[i] = DUMMY

\* the last messages of a source task
TerminalKinds == {"MustDemobilize", "NetworkIssue", "Unreachable"}

\* the step puts message m on the MsgForSystem channel, or hands it to a send
\* that returns an error because the receiver is gone
HandsOver(m) ==
    IF chan_closed THEN chan' = chan ELSE chan' = Append(chan, m)

\* C33: on every path by which the run loop returns (Reset, Demobilize,
\* network error on receive, network error on send, failure to open the
\* socket) the snapshot map holds no entry for the task's SourceId when the
\* task has terminated, and the entry is removed only after the terminal
\* message has been handed to the MsgForSystem channel.
C33_SnapshotRemovedLast ==
    [][\A s \in Sources :
          /\ pc'[s] = "done" => snapshots'[s] = Absent
          /\ (pc[s] # "done" /\ pc'[s] = "done") =>
                /\ produced'[s] \in TerminalKinds
                /\ HandsOver(Msg(produced'[s], s))
          /\ (snapshots[s] # Absent /\ snapshots'[s] = Absent) =>
                /\ pc'[s] = "done"
                /\ produced'[s] \in TerminalKinds
                /\ HandsOver(Msg(produced'[s], s))
          /\ (pc'[s] = "blocked" /\ sending'[s].kind \in TerminalKinds) =>
                snapshots'[s] = snapshots[s]]_vars

\* a task whose last message had to wait for room in the channel has
\* returned: the message is in the channel and the entry is gone
C33_Witness ==
    /\ pc["s1"] = "done" /\ event.kind = "complete"
    /\ ctrl["s1"] >= 1 /\ snapshots["s1"] = Absent
    /\ chan # <<>> /\ chan[Len(chan)] = Msg(produced["s1"], "s1")
    /\ produced["s1"] \in TerminalKinds

\* the messages of source s in the channel
OwnMessages(s) == SelectSeq(chan, LAMBDA m : m.id = s)

\* C34: a source task sends at most one terminal message (MustDemobilize,
\* NetworkIssue or Unreachable) in its lifetime, and that message is the last
\* message it puts on the MsgForSystem channel: with per-sender FIFO delivery
\* the aggregator never receives a SourceUpdate for a SourceId after a
\* terminal message for the same SourceId.
C34_TerminalIsLast ==
    [][\A s \in Sources :
          /\ \* a task that has returned stays returned and sends nothing
             pc[s] = "done" =>
                /\ pc'[s] = "done"
                /\ \E k \in 0..Len(OwnMessages(s)) :
                      OwnMessages(s)' = SubSeq(OwnMessages(s), k + 1, Len(OwnMessages(s)))
                /\ produced'[s] = produced[s]
          /\ \* a terminal message enters the channel as the task returns
             (Len(OwnMessages(s)') > Len(OwnMessages(s))
                 /\ OwnMessages(s)'[Len(OwnMessages(s)')].kind \in TerminalKinds) =>
                (pc[s] # "done" /\ pc'[s] = "done")
          /\ \* in the channel nothing of the task follows its terminal message
             \A i \in 1..Len(OwnMessages(s)') :
                OwnMessages(s)'[i].kind \in TerminalKinds =>
                   (i = Len(OwnMessages(s)') /\ pc'[s] = "done")]_vars

\* a task that has returned after two controller calls: its last message is
\* in the channel and is the only message of the task there
C34_Witness ==
    /\ pc["s1"] = "done" /\ produced["s1"] \in TerminalKinds
    /\ OwnMessages("s1") = <<Msg(produced["s1"], "s1")>>
    /\ ~chan_closed /\ ctrl["s1"] >= 2

\* C35: at every wait point of the main loop, if the task holds an open
\* socket then last_send_timestamp is present; hence a packet can only be
\* received after a Send action has recorded a send timestamp, and the branch
\* that discards a packet for lack of an outstanding request is never taken.
C35_TimestampWithSocket ==
    /\ \A s \in Sources :
          (pc[s] = "wait" /\ socket[s] # NoSocket) =>
              last_send_timestamp[s] # NoTimestamp
    /\ (event.kind = "wake" /\ event.what = "Recv") =>
          /\ event.outcome # "unsolicited"
          /\ socket[event.source] # NoSocket
          /\ last_send_timestamp[event.source] # NoTimestamp

\* a datagram has been accepted and handed to the controller with the send
\* timestamp of the request
C35_Witness ==
    /\ event.kind = "wake" /\ event.what = "Recv" /\ event.outcome = "handled"
    /\ event.ts = last_send_timestamp["s1"]
    /\ event.ts # NoTimestamp
    /\ socket["s1"] # NoSocket

\* C36: with several source tasks sharing one snapshot map, each task inserts
\* and removes only the entry keyed by its own SourceId: under every
\* interleaving of the tasks, the entries of the other sources are left
\* unchanged by a task's refreshes and by its termination.
C36_OwnEntryOnly ==
    [][\A o \in SourceIds :
          snapshots'[o] # snapshots[o] =>
              /\ event'.source = o
              /\ \/ HandlesWake(o) /\ snapshots'[o] = ctrl'[o]
                 \/ pc'[o] = "done" /\ snapshots'[o] = Absent]_vars

\* one task has returned and removed its entry while the entry the other
\* task stored is in the map
C36_Witness ==
    /\ pc["s1"] = "done" /\ snapshots["s1"] = Absent /\ ctrl["s1"] >= 1
    /\ pc["s2"] # "done" /\ snapshots["s2"] = ctrl["s2"] /\ ctrl["s2"] >= 1
    /\ event.source = "s1"

\* C37: whenever select returns a non-empty list, the list has at least
\* min_intersection_survivors elements and more than half as many elements as
\* there are eligible candidates; every returned element is one of the input
\* candidates, returned once and in input order.
C37_SurvivorCount ==
    (SelCalled /\ sel_result.survivors # <<>>) =>
        LET out == sel_result.survivors
        IN  /\ Len(out) >= sel_config.min_intersection_survivors
            /\ 2 * Len(out) > Cardinality(EligibleSet)
            /\ \A k \in 1..Len(out) :
                  /\ out[k].index \in 1..Len(candidates)
                  /\ out[k] = candidates[out[k].index]
            /\ \A j, k \in 1..Len(out) : j < k => out[j].index < out[k].index

\* C38: during the sweep over the sorted bounds, for every set of eligible
\* candidates (each with radius <= max_peer_uncertainty, including zero and
\* negative radii), the counter cur is never decremented while it is 0 and it
\* is 0 again after the last bound.
C38_NoUnderflow ==
    SelCalled => (sel_result.kind = "Ok" /\ sel_result.cur = 0)

\* C39: step stores the new tuple in the register whether it returns Some or
\* None: after a call that returns None the register holds the new tuple at
\* slot 0 and the former tuples shifted and aged exactly as after a call that
\* returns Some, so a sample that was rejected still takes part in later
\* smallest-delay selection, dispersion and jitter; when several stored
\* tuples share the smallest delay, the most recently inserted one (the one
\* in the lowest slot) is the one selected.
C39_StoredWhateverReturned ==
    [][fsteps' = fsteps + 1 =>
          LET new == fcall'.new_tuple
              c == multiply_by_phi(TsSub(new.time, peer_time))
              stored == [i \in 1..8 |->
                            IF i = 1 THEN new
                            ELSE IF is_dummy(register[i - 1]) THEN register[i - 1]
                            ELSE [register[i - 1] EXCEPT !.dispersion = @ + c]]
              best == BestOf(stored)
          IN  /\ fresult'.kind \in {"None", "Some", "Panic"}
              /\ register' = stored
              /\ fresult'.kind = "None" =>
                    (is_synchronized(fcall'.leap) /\ ~Later(best.time, peer_time))
              /\ fresult'.kind = "Some" =>
                    /\ fresult'.id = best.id
                    /\ fresult'.offset = best.offset
                    /\ fresult'.delay = best.delay
                    /\ fresult'.time = best.time]_vars

\* the sample of a call that returned None is in slot 1, aged, and is the
\* sample the second call returns
C39_Witness ==
    /\ fsteps = 2 /\ returned = {1}
    /\ fresult.kind = "Some" /\ fresult.id = 1
    /\ register[1] = fcall.new_tuple
    /\ register[2].id = 1 /\ register[2].dispersion # 0
    /\ fresult.delay = register[2].delay

====
